---------------------------- MODULE Spec2Model ----------------------------
(***************************************************************************)
(* A model of the blendmate add-on's message bridge: the transport thread  *)
(* (connection.ws_thread), the two queues between it and the host's main   *)
(* thread, the protocol upgrade handshake (connection.handle_request), the *)
(* envelope codec (protocol.py), the throttle engine (throttle.py) and the *)
(* command handlers with their path resolver (commands/).                  *)
(*                                                                         *)
(* Python strings whose characters the code inspects (error messages that  *)
(* are searched for keywords, paths that are tokenized, operator names     *)
(* that are split) are sequences of one-character strings.  Dictionaries   *)
(* are records; a key that is absent is absent from the record's domain.   *)
(* Envelope timestamps and random ids (protocol.create_envelope) are not   *)
(* part of the model: no operation reads them.                             *)
(*                                                                         *)
(* The specifications share the variables and the actions.  Spec is the    *)
(* bridge from register() to unregister(): the transport thread, the       *)
(* inbound and outbound ticks, a host event and the shutdown; it has no    *)
(* clock, so a throttle bucket leaves it only by flush_immediate.          *)
(* SpecLive is Spec under the fairness that the threads and the registered *)
(* timers give.  SpecLifecycle is the transport threads alone under        *)
(* register() and unregister() in any order.  SpecCmd is one tick of       *)
(* process_pending_requests over one request drawn from a larger set of    *)
(* requests.  SpecThrottle is the throttle engine with its clock and its   *)
(* timer, fed by the two host handlers, under reconnects, an upgrade and   *)
(* the shutdown.  SpecInbound is an open connection on which any texts     *)
(* arrive, JSON or not, with the ticks that handle them; arg keeps the     *)
(* texts in order of arrival.  SpecTick is SpecInbound's connection with   *)
(* the tick callbacks called one by one, before and after unregister(); of *)
(* each call ret keeps what it returned.  SpecReconnect is the inbound     *)
(* path while the socket drops and the transport thread reconnects; arg    *)
(* keeps each text with the connection it arrived on.  In SpecCmd the host *)
(* may refuse the read of bpy.data.  SpecPath, SpecWrap and SpecConfig     *)
(* examine one function each (tokenize_path, wrap_legacy_message, the      *)
(* throttle window) over a set of arguments: arg is the argument and ret   *)
(* the outcome.  SpecRegistry is the event registry (events/registry.py)   *)
(* under any sequence of register_all and unregister_all; arg is the       *)
(* sequence.                                                               *)
(***************************************************************************)
EXTENDS Integers, Sequences, FiniteSets, TLC

VARIABLES
    _should_run,                \* connection._should_run (threading.Event)
    _thread,                    \* connection._thread: 0 (None) or the thread's number
    tpc,                        \* position of each transport thread in ws_thread
    ws_app,                     \* the WebSocketApp whose run_forever each thread is in, or 0
    waited,                     \* how each thread's last _should_run.wait(timeout=2) went
    _ws,                        \* connection._ws: 0 (None) or the WebSocketApp's number
    sock,                       \* the WebSocketApps whose socket is connected
    _session_protocol_version,  \* connection._session_protocol_version
    _message_queue,             \* connection._message_queue (outbound)
    _pending_requests,          \* connection._pending_requests (inbound)
    mainpc,                     \* position of the host's main thread
    conn,                       \* number of WebSocketApps created so far
    wire,                       \* what was transmitted: [msg, conn] in order
    nreq,                       \* number of messages the counterpart has sent
    handled,                    \* the last handle_request call and its outcome
    host,                       \* the host application's state (bpy)
    _pending_events,            \* throttle._pending_events, in insertion order
    _dirty_reasons,             \* throttle._dirty_reasons
    _coalesced_data,            \* throttle._coalesced_data
    _event_count,               \* throttle._event_count
    _new_type_map,              \* throttle._new_type_map
    flush_timer,                \* <<due>> while _flush_pending_events is a registered timer
    now,                        \* time.time(), in steps of 50 ms
    submitted,                  \* the throttle_event calls since each kind's last flush
    budget,                     \* host events still to come in this behaviour
    frame_current,              \* bpy.context.scene.frame_current
    arg,                        \* the argument of the function under examination
    ret,                        \* <<its outcome>> once it has returned or raised
    registry                    \* the event registry and the host's handler lists and timers

bridgeVars == <<_should_run, _thread, tpc, ws_app, waited, _ws, sock, _session_protocol_version,
                _message_queue, _pending_requests, mainpc, conn, wire, nreq,
                handled, host>>

throttleVars == <<_pending_events, _dirty_reasons, _coalesced_data, _event_count,
                  _new_type_map, flush_timer, now, submitted, budget,
                  frame_current>>

callVars == <<arg, ret>>

registryVars == <<registry>>

vars == <<bridgeVars, throttleVars, callVars, registryVars>>

(***************************************************************************)
(* Bounds of the model.                                                    *)
(***************************************************************************)
MaxRequests == 2      \* messages the counterpart sends in one behaviour
MaxConn == 2          \* connections the transport thread attempts
MaxThreads == 2       \* transport threads started in one behaviour
MaxEvents == 1        \* host events in one behaviour of the bridge
MaxTime == 2          \* the clock stops advancing here

(***************************************************************************)
(* Text helpers: the Python string operations the code uses.               *)
(***************************************************************************)
\* str.lower(), on the letters that occur
Lower(s) ==
    LET up == <<"A","B","C","D","E","F","G","H","I","J","K","L","M",
                "N","O","P","Q","R","S","T","U","V","W","X","Y","Z">>
        lo == <<"a","b","c","d","e","f","g","h","i","j","k","l","m",
                "n","o","p","q","r","s","t","u","v","w","x","y","z">>
        low(c) == IF \E i \in 1..26 : up[i] = c
                  THEN lo[CHOOSE i \in 1..26 : up[i] = c]
                  ELSE c
    IN  [i \in 1..Len(s) |-> low(s[i])]

\* `sub in s` for strings
Contains(s, sub) ==
    \E i \in 1..(Len(s) - Len(sub) + 1) : SubSeq(s, i, i + Len(sub) - 1) = sub

\* str(n) for the small integers of the model
IntText(n) ==
    LET digit(d) == <<"0","1","2","3","4","5","6","7","8","9">>[d + 1]
        abs == IF n < 0 THEN 0 - n ELSE n
        body == IF abs < 10 THEN <<digit(abs)>>
                ELSE <<digit(abs \div 10), digit(abs % 10)>>
    IN  IF n < 0 THEN <<"-">> \o body ELSE body

\* Python's None
None == [none |-> TRUE]

\* dict.get(key, default)
Get(d, key, default) == IF key \in DOMAIN d THEN d[key] ELSE default

\* F applied to the value of v: v is evaluated once, before F is applied
Eval(v, F(_)) == CHOOSE r \in {F(x) : x \in {v}} : TRUE

(***************************************************************************)
(* protocol.py: the envelope codec.                                        *)
(***************************************************************************)
PROTOCOL_VERSION == 1

\* create_envelope(msg_type, body, reply_to): reply_to is <<>> (None) or <<id>>
create_envelope(msg_type, body, reply_to) ==
    [v |-> PROTOCOL_VERSION, type |-> msg_type, source |-> "blender_addon",
     body |-> body]
    @@ (IF reply_to # <<>> THEN [reply_to |-> reply_to[1]] ELSE <<>>)

\* create_response: data <<>>, error_code "" and error_message <<>> stand for
\* None; data <<x>> is the value x
create_response(request_id, ok, data, error_code, error_message, warnings, action) ==
    LET body ==
            [ok |-> ok]
            @@ (IF action # <<>> THEN [action |-> action] ELSE <<>>)
            @@ (IF ok
                THEN (IF data # <<>> THEN [data |-> data[1]] ELSE <<>>)
                ELSE [error |->
                        [code |-> IF error_code # "" THEN error_code
                                  ELSE "INTERNAL_ERROR",
                         \* "Unknown error"
                         message |-> IF error_message # <<>> THEN error_message
                                     ELSE <<"U","n","k","n","o","w","n"," ",
                                            "e","r","r","o","r">>]])
            @@ (IF warnings # <<>> THEN [warnings |-> warnings] ELSE <<>>)
    IN  create_envelope("response", body, <<request_id>>)

\* create_event(event_type, body, legacy_type): legacy_type is <<>> (None) or
\* <<name>>; a legacy_type that is the empty string is falsy as None is
create_event(event_type, body, legacy_type) ==
    create_envelope(event_type,
                    IF legacy_type # <<>> /\ legacy_type[1] # ""
                    THEN [_legacy |-> [type |-> "event",
                                       event |-> legacy_type[1]]] @@ body
                    ELSE body,
                    <<>>)

event_node_active_changed(node_id, node_tree) ==
    [node_id |-> node_id, node_tree |-> node_tree]

create_heartbeat(active_object, mode, filepath) ==
    create_envelope("heartbeat",
                    [active_object |-> active_object, mode |-> mode,
                     filepath |-> filepath],
                    <<>>)

event_scene_connected(blender_version, addon_version, filepath) ==
    [blender_version |-> blender_version, addon_version |-> addon_version,
     filepath |-> filepath]

event_timeline_frame_changed(frame) == [frame |-> frame]

event_depsgraph_updated(changed_object_ids, geometry_changed_ids, reason) ==
    [changed_object_ids |-> changed_object_ids,
     geometry_changed_ids |-> geometry_changed_ids, reason |-> reason]

\* EVENT_TYPE_MAP.get(old_event, f"event.legacy.{old_event}")
EVENT_TYPE_MAP(old_event) ==
    CASE old_event = "connected" -> "event.scene.connected"
      [] old_event = "load_post" -> "event.scene.file_loaded"
      [] old_event = "save_post" -> "event.scene.file_saved"
      [] old_event = "depsgraph_update" -> "event.depsgraph.updated"
      [] old_event = "frame_change" -> "event.timeline.frame_changed"
      [] old_event = "context" -> "event.node.active_changed"
      [] OTHER -> "event.legacy." \o old_event

\* the record r without the keys in ks
Without(r, ks) == [k \in (DOMAIN r) \ ks |-> r[k]]

\* wrap_legacy_message(legacy_msg)
\* a variant of wrap_legacy_message that copies the error text of a legacy
\* response into the data of the envelope; C31_DataXorError tells it from
\* wrap_legacy_message
wrap_legacy_message_error_as_data(legacy_msg) ==
    LET msg_type == Get(legacy_msg, "type", "unknown")
    IN  CASE msg_type = "event" ->
               LET old_event == Get(legacy_msg, "event", "unknown")
                   body == [_legacy |-> legacy_msg]
                           @@ Without(legacy_msg, {"type", "event"})
               IN  create_envelope(EVENT_TYPE_MAP(old_event), body, <<>>)
          [] msg_type = "response" ->
               LET request_id == Get(legacy_msg, "id", "unknown")
                   has_error == "error" \in DOMAIN legacy_msg
                   body == [ok |-> ~has_error,
                            data |-> IF has_error THEN legacy_msg.error
                                     ELSE Get(legacy_msg, "data", None),
                            _legacy |-> legacy_msg]
                           @@ (IF has_error
                               THEN [error |-> [code |-> "INTERNAL_ERROR",
                                                message |-> legacy_msg.error]]
                               ELSE <<>>)
               IN  create_envelope("response", body, <<request_id>>)
          [] msg_type = "heartbeat" ->
               create_heartbeat(Get(legacy_msg, "active_object", None),
                                Get(legacy_msg, "mode", None),
                                Get(legacy_msg, "filepath", "(unsaved)"))
          [] msg_type = "context" ->
               create_event("event.node.active_changed",
                            event_node_active_changed(
                                Get(legacy_msg, "node_id", "unknown"),
                                Get(legacy_msg, "area", None)),
                            <<"context">>)
          [] OTHER -> create_envelope("legacy." \o msg_type, legacy_msg, <<>>)

wrap_legacy_message(legacy_msg) ==
    LET msg_type == Get(legacy_msg, "type", "unknown")
    IN  CASE msg_type = "event" ->
               LET old_event == Get(legacy_msg, "event", "unknown")
                   body == [_legacy |-> legacy_msg]
                           @@ Without(legacy_msg, {"type", "event"})
               IN  create_envelope(EVENT_TYPE_MAP(old_event), body, <<>>)
          [] msg_type = "response" ->
               LET request_id == Get(legacy_msg, "id", "unknown")
                   has_error == "error" \in DOMAIN legacy_msg
                   body == [ok |-> ~has_error,
                            data |-> Get(legacy_msg, "data", None),
                            _legacy |-> legacy_msg]
                           @@ (IF has_error
                               THEN [error |-> [code |-> "INTERNAL_ERROR",
                                                message |-> legacy_msg.error]]
                               ELSE <<>>)
               IN  create_envelope("response", body, <<request_id>>)
          [] msg_type = "heartbeat" ->
               create_heartbeat(Get(legacy_msg, "active_object", None),
                                Get(legacy_msg, "mode", None),
                                Get(legacy_msg, "filepath", "(unsaved)"))
          [] msg_type = "context" ->
               create_event("event.node.active_changed",
                            event_node_active_changed(
                                Get(legacy_msg, "node_id", "unknown"),
                                Get(legacy_msg, "area", None)),
                            <<"context">>)
          [] OTHER -> create_envelope("legacy." \o msg_type, legacy_msg, <<>>)

(***************************************************************************)
(* connection.py: session state and the outbound path.                     *)
(***************************************************************************)
SUPPORTED_PROTOCOL_VERSIONS == <<1>>

\* `x in list`
InList(x, list) == \E i \in 1..Len(list) : list[i] = x

is_protocol_v1(version) == version >= 1

IsEnvelope(data) == "v" \in DOMAIN data /\ "body" \in DOMAIN data

\* send_to_blendmate(data): the outbound queue after the call
send_to_blendmate(queue, version, data) ==
    IF is_protocol_v1(version)
    THEN IF IsEnvelope(data)
         THEN Append(queue, data)
         ELSE Append(queue, wrap_legacy_message(data))
    ELSE IF IsEnvelope(data)
         THEN LET legacy == Get(data.body, "_legacy", None)
              IN  IF legacy # None /\ DOMAIN legacy # {}
                  THEN Append(queue, legacy)
                  ELSE Append(queue, data.body)
         ELSE Append(queue, data)

(***************************************************************************)
(* The host application (bpy), as far as the commands reach it.  A node of *)
(* the object graph is a struct (attributes), a collection (named items in *)
(* order), a vector or an integer property.  The host's own error texts    *)
(* are those of Blender's Python API.                                      *)
(***************************************************************************)
Ok(v) == [ok |-> TRUE, val |-> v]
Err(exc, text) == [ok |-> FALSE, exc |-> exc, err |-> text]

IntNode(n) == [k |-> "int", m |-> n]
VecNode(s) == [k |-> "vec", m |-> s]
StructNode(cls, attrs) == [k |-> "struct", cls |-> cls, m |-> attrs]
CollNode(items) == [k |-> "coll", items |-> items]

ALLOWED_ROOTS ==
    {<<"o","b","j","e","c","t","s">>,   \* objects
     <<"m","e","s","h","e","s">>,   \* meshes
     <<"m","a","t","e","r","i","a","l","s">>,   \* materials
     <<"n","o","d","e","_","g","r","o","u","p","s">>,   \* node_groups
     <<"c","o","l","l","e","c","t","i","o","n","s">>,   \* collections
     <<"l","i","g","h","t","s">>,   \* lights
     <<"c","a","m","e","r","a","s">>,   \* cameras
     <<"c","u","r","v","e","s">>,   \* curves
     <<"t","e","x","t","u","r","e","s">>,   \* textures
     <<"i","m","a","g","e","s">>,   \* images
     <<"a","r","m","a","t","u","r","e","s">>,   \* armatures
     <<"a","c","t","i","o","n","s">>,   \* actions
     <<"p","a","r","t","i","c","l","e","s">>,   \* particles
     <<"w","o","r","l","d","s">>,   \* worlds
     <<"s","c","e","n","e","s">>,   \* scenes
     <<"t","e","x","t","s">>,   \* texts
     <<"f","o","n","t","s">>,   \* fonts
     <<"g","r","e","a","s","e","_","p","e","n","c","i","l","s">>,   \* grease_pencils
     <<"l","i","b","r","a","r","i","e","s">>,   \* libraries
     <<"b","r","u","s","h","e","s">>,   \* brushes
     <<"p","a","l","e","t","t","e","s">>,   \* palettes
     <<"l","a","t","t","i","c","e","s">>   \* lattices
    }
SAFE_CATEGORIES ==
    {<<"o","b","j","e","c","t">>,   \* object
     <<"m","e","s","h">>,   \* mesh
     <<"c","u","r","v","e">>,   \* curve
     <<"s","u","r","f","a","c","e">>,   \* surface
     <<"a","r","m","a","t","u","r","e">>,   \* armature
     <<"l","a","t","t","i","c","e">>,   \* lattice
     <<"t","r","a","n","s","f","o","r","m">>,   \* transform
     <<"v","i","e","w","3","d">>,   \* view3d
     <<"n","o","d","e">>,   \* node
     <<"m","a","t","e","r","i","a","l">>,   \* material
     <<"t","e","x","t","u","r","e">>,   \* texture
     <<"u","v">>,   \* uv
     <<"p","a","i","n","t">>,   \* paint
     <<"s","c","u","l","p","t">>,   \* sculpt
     <<"g","p","e","n","c","i","l">>,   \* gpencil
     <<"a","n","i","m">>,   \* anim
     <<"a","c","t","i","o","n">>,   \* action
     <<"m","a","r","k","e","r">>,   \* marker
     <<"p","o","s","e">>,   \* pose
     <<"c","o","n","s","t","r","a","i","n","t">>,   \* constraint
     <<"s","c","r","e","e","n">>,   \* screen
     <<"w","m">>   \* wm
    }
BLOCKED_OPERATORS ==
    {<<"w","m",".","q","u","i","t","_","b","l","e","n","d","e","r">>,   \* wm.quit_blender
     <<"w","m",".","s","a","v","e","_","m","a","i","n","f","i","l","e">>,   \* wm.save_mainfile
     <<"w","m",".","o","p","e","n","_","m","a","i","n","f","i","l","e">>,   \* wm.open_mainfile
     <<"w","m",".","r","e","a","d","_","f","a","c","t","o","r","y","_","s","e","t","t","i","n","g","s">>,   \* wm.read_factory_settings
     <<"w","m",".","r","e","c","o","v","e","r","_","a","u","t","o","_","s","a","v","e">>,   \* wm.recover_auto_save
     <<"w","m",".","r","e","c","o","v","e","r","_","l","a","s","t","_","s","e","s","s","i","o","n">>,   \* wm.recover_last_session
     <<"p","r","e","f","e","r","e","n","c","e","s",".","a","d","d","o","n","_","i","n","s","t","a","l","l">>,   \* preferences.addon_install
     <<"p","r","e","f","e","r","e","n","c","e","s",".","a","d","d","o","n","_","r","e","m","o","v","e">>,   \* preferences.addon_remove
     <<"s","c","r","i","p","t",".","p","y","t","h","o","n","_","f","i","l","e","_","r","u","n">>,   \* script.python_file_run
     <<"s","c","r","i","p","t",".","e","x","e","c","u","t","e","_","p","r","e","s","e","t">>,   \* script.execute_preset
     <<"t","e","x","t",".","r","u","n","_","s","c","r","i","p","t">>   \* text.run_script
    }

\* position of the item named key in a collection, 0 when there is none
ItemIndex(coll, key) ==
    IF \E i \in 1..Len(coll.items) : coll.items[i].name = key
    THEN CHOOSE i \in 1..Len(coll.items) :
            /\ coll.items[i].name = key
            /\ \A j \in 1..(i - 1) : coll.items[j].name # key
    ELSE 0

\* the node one step below obj
Child(obj, step) ==
    CASE step.s = "attr" -> obj.m[step.name]
      [] step.s = "item" -> obj.items[step.i].node
      [] step.s = "elem" -> IntNode(obj.m[step.i])

RECURSIVE NodeAt(_, _)
NodeAt(obj, ref) ==
    IF ref = <<>> THEN obj ELSE NodeAt(Child(obj, Head(ref)), Tail(ref))

\* the graph with the node at ref replaced
RECURSIVE Replace(_, _, _)
Replace(obj, ref, new) ==
    IF ref = <<>> THEN new
    ELSE LET step == Head(ref)
         IN  CASE step.s = "attr" ->
                    [obj EXCEPT !.m[step.name] = Replace(@, Tail(ref), new)]
               [] step.s = "item" ->
                    [obj EXCEPT !.items[step.i].node = Replace(@, Tail(ref), new)]
               [] step.s = "elem" ->
                    [obj EXCEPT !.m[step.i] = new.m]

\* hasattr(obj, name) for a data attribute
hasattr(obj, name) == obj.k = "struct" /\ name \in DOMAIN obj.m

\* type(obj) as printed
TypeText(obj) ==
    CASE obj.k = "struct" -> (* "<class 'bpy_types." *) <<"<","c","l","a","s","s"," ","'","b","p","y","_","t","y","p","e","s",".">> \o obj.cls \o (* "'>" *) <<"'",">">>
      [] obj.k = "coll" -> (* "<class 'bpy_prop_collection'>" *) <<"<","c","l","a","s","s"," ","'","b","p","y","_","p","r","o","p","_","c","o","l","l","e","c","t","i","o","n","'",">">>
      [] obj.k = "vec" -> (* "<class 'Vector'>" *) <<"<","c","l","a","s","s"," ","'","V","e","c","t","o","r","'",">">>
      [] obj.k = "int" -> (* "<class 'int'>" *) <<"<","c","l","a","s","s"," ","'","i","n","t","'",">">>

\* getattr(obj, name): the step taken, or the host's AttributeError
host_getattr(obj, name) ==
    IF hasattr(obj, name) THEN Ok([s |-> "attr", name |-> name])
    ELSE Err("AttributeError",
             (* "'" *) <<"'">> \o (IF obj.k = "struct" THEN obj.cls
                      ELSE SubSeq(TypeText(obj), 9, Len(TypeText(obj)) - 2))
             \o (* "' object has no attribute '" *) <<"'"," ","o","b","j","e","c","t"," ","h","a","s"," ","n","o"," ","a","t","t","r","i","b","u","t","e"," ","'">> \o name \o (* "'" *) <<"'">>)

\* a Python index into a sequence of length n: 0 when out of range
NormIndex(i, n) ==
    IF i >= 0 THEN (IF i < n THEN i + 1 ELSE 0)
    ELSE (IF n + i >= 0 THEN n + i + 1 ELSE 0)

\* obj[seg_value] for a key or index segment
host_getitem(obj, seg) ==
    CASE obj.k = "coll" /\ seg.type = "key" ->
           IF ItemIndex(obj, seg.value) # 0
           THEN Ok([s |-> "item", i |-> ItemIndex(obj, seg.value)])
           ELSE Err("KeyError", (* "'bpy_prop_collection[key]: key \"" *) <<"'","b","p","y","_","p","r","o","p","_","c","o","l","l","e","c","t","i","o","n","[","k","e","y","]",":"," ","k","e","y"," ","\"">> \o seg.value
                                \o (* "\" not found'" *) <<"\""," ","n","o","t"," ","f","o","u","n","d","'">>)
      [] obj.k = "coll" /\ seg.type = "index" ->
           IF NormIndex(seg.index, Len(obj.items)) # 0
           THEN Ok([s |-> "item", i |-> NormIndex(seg.index, Len(obj.items))])
           ELSE Err("IndexError", (* "bpy_prop_collection[index]: index " *) <<"b","p","y","_","p","r","o","p","_","c","o","l","l","e","c","t","i","o","n","[","i","n","d","e","x","]",":"," ","i","n","d","e","x"," ">>
                                  \o IntText(seg.index) \o (* " out of range, size " *) <<" ","o","u","t"," ","o","f"," ","r","a","n","g","e",","," ","s","i","z","e"," ">>
                                  \o IntText(Len(obj.items)))
      [] obj.k = "vec" /\ seg.type = "index" ->
           IF NormIndex(seg.index, Len(obj.m)) # 0
           THEN Ok([s |-> "elem", i |-> NormIndex(seg.index, Len(obj.m))])
           ELSE Err("IndexError", (* "vector[index]: out of range" *) <<"v","e","c","t","o","r","[","i","n","d","e","x","]",":"," ","o","u","t"," ","o","f"," ","r","a","n","g","e">>)
      [] obj.k = "vec" /\ seg.type = "key" ->
           Err("TypeError", (* "vector indices must be integers, not str" *) <<"v","e","c","t","o","r"," ","i","n","d","i","c","e","s"," ","m","u","s","t"," ","b","e"," ","i","n","t","e","g","e","r","s",","," ","n","o","t"," ","s","t","r">>)
      [] obj.k = "struct" /\ seg.type = "key" ->
           Err("KeyError", (* "'bpy_struct[key]: key \"" *) <<"'","b","p","y","_","s","t","r","u","c","t","[","k","e","y","]",":"," ","k","e","y"," ","\"">> \o seg.value
                           \o (* "\" not found'" *) <<"\""," ","n","o","t"," ","f","o","u","n","d","'">>)
      [] obj.k = "struct" /\ seg.type = "index" ->
           Err("TypeError", (* "bpy_struct[key]: invalid key, must be a string, not int" *) <<"b","p","y","_","s","t","r","u","c","t","[","k","e","y","]",":"," ","i","n","v","a","l","i","d"," ","k","e","y",","," ","m","u","s","t"," ","b","e"," ","a"," ","s","t","r","i","n","g",","," ","n","o","t"," ","i","n","t">>)
      [] OTHER ->
           Err("TypeError", (* "'int' object is not subscriptable" *) <<"'","i","n","t","'"," ","o","b","j","e","c","t"," ","i","s"," ","n","o","t"," ","s","u","b","s","c","r","i","p","t","a","b","l","e">>)

(***************************************************************************)
(* commands/resolver.py                                                    *)
(***************************************************************************)
IdStart ==
    {"a","b","c","d","e","f","g","h","i","j","k","l","m","n","o","p","q","r",
     "s","t","u","v","w","x","y","z","A","B","C","D","E","F","G","H","I","J",
     "K","L","M","N","O","P","Q","R","S","T","U","V","W","X","Y","Z","_"}
Digits == {"0","1","2","3","4","5","6","7","8","9"}

\* the end (exclusive) of the longest run from pos of characters in S
RunIn(path, pos, S) ==
    CHOOSE j \in pos..(Len(path) + 1) :
        /\ \A i \in pos..(j - 1) : path[i] \in S
        /\ (j = Len(path) + 1 \/ path[j] \notin S)

\* the end (exclusive) of the longest run from pos of characters other than c
RunNot(path, pos, c) ==
    CHOOSE j \in pos..(Len(path) + 1) :
        /\ \A i \in pos..(j - 1) : path[i] # c
        /\ (j = Len(path) + 1 \/ path[j] = c)

\* int() of an optionally signed run of digits
RECURSIVE DigitsValue(_)
DigitsValue(ds) ==
    IF ds = <<>> THEN 0
    ELSE 10 * Eval(SubSeq(ds, 1, Len(ds) - 1), DigitsValue)
         + (CHOOSE d \in 0..9 : IntText(d) = <<ds[Len(ds)]>>)
ParseInt(text) ==
    IF text[1] = "-" THEN 0 - Eval(Tail(text), DigitsValue)
    ELSE DigitsValue(text)

\* a variant of SEGMENT_PATTERN whose string keys take single quotes only;
\* C11_Tokenize tells it from SEGMENT_PATTERN
SEGMENT_PATTERN_single_quoted(path, pos) ==
    LET n == Len(path)
        at(i) == IF i <= n THEN path[i] ELSE ""
        nomatch == [matched |-> FALSE]
    IN  IF at(pos) \in IdStart
        THEN LET e == RunIn(path, pos + 1, IdStart \cup Digits)
             IN  [matched |-> TRUE, group |-> "attr",
                  text |-> SubSeq(path, pos, e - 1), end |-> e]
        ELSE IF at(pos) # "[" THEN nomatch
        ELSE IF at(pos + 1) = "'"
        THEN LET q == RunNot(path, pos + 2, at(pos + 1))
             IN  IF at(q) = at(pos + 1) /\ at(q + 1) = "]"
                 THEN [matched |-> TRUE, group |-> "strkey",
                       text |-> SubSeq(path, pos + 1, q), end |-> q + 2]
                 ELSE nomatch
        ELSE LET d == IF at(pos + 1) = "-" THEN pos + 2 ELSE pos + 1
                 e == RunIn(path, d, Digits)
             IN  IF e > d /\ at(e) = "]"
                 THEN [matched |-> TRUE, group |-> "intkey",
                       text |-> SubSeq(path, pos + 1, e - 1), end |-> e + 1]
                 ELSE nomatch

\* SEGMENT_PATTERN.match(path, pos): positions count from 1; end is exclusive
SEGMENT_PATTERN(path, pos) ==
    LET n == Len(path)
        at(i) == IF i <= n THEN path[i] ELSE ""
        nomatch == [matched |-> FALSE]
    IN  IF at(pos) \in IdStart
        THEN LET e == RunIn(path, pos + 1, IdStart \cup Digits)
             IN  [matched |-> TRUE, group |-> "attr",
                  text |-> SubSeq(path, pos, e - 1), end |-> e]
        ELSE IF at(pos) # "[" THEN nomatch
        ELSE IF at(pos + 1) \in {"'", "\""}
        THEN LET q == RunNot(path, pos + 2, at(pos + 1))
             IN  IF at(q) = at(pos + 1) /\ at(q + 1) = "]"
                 THEN [matched |-> TRUE, group |-> "strkey",
                       text |-> SubSeq(path, pos + 1, q), end |-> q + 2]
                 ELSE nomatch
        ELSE LET d == IF at(pos + 1) = "-" THEN pos + 2 ELSE pos + 1
                 e == RunIn(path, d, Digits)
             IN  IF e > d /\ at(e) = "]"
                 THEN [matched |-> TRUE, group |-> "intkey",
                       text |-> SubSeq(path, pos + 1, e - 1), end |-> e + 1]
                 ELSE nomatch

RECURSIVE tokenize_from(_, _, _)
tokenize_from(path, pos, segments) ==
    IF pos > Len(path) THEN Ok(segments)
    ELSE IF path[pos] = "." THEN tokenize_from(path, pos + 1, segments)
    ELSE Eval(SEGMENT_PATTERN(path, pos), LAMBDA match :
           IF ~match.matched
           THEN Err("ValueError", (* "Invalid path syntax at position " *) <<"I","n","v","a","l","i","d"," ","p","a","t","h"," ","s","y","n","t","a","x"," ","a","t"," ","p","o","s","i","t","i","o","n"," ">>
                                  \o IntText(pos - 1) \o (* ": " *) <<":"," ">>
                                  \o SubSeq(path, pos, Len(path)))
           ELSE Eval(Append(segments,
                       CASE match.group = "attr" ->
                              [type |-> "attr", value |-> match.text]
                         [] match.group = "strkey" ->
                              [type |-> "key",
                               value |-> SubSeq(match.text, 2, Len(match.text) - 1)]
                         [] match.group = "intkey" ->
                              [type |-> "index", index |-> ParseInt(match.text)]),
                     LAMBDA found : tokenize_from(path, match.end, found)))

tokenize_path(path) == Eval(path, LAMBDA p : tokenize_from(p, 1, <<>>))

\* the loop of resolve_path over segments[1:], from the node at ref
RECURSIVE resolve_segments(_, _, _)
resolve_segments(data, ref, segs) ==
    IF segs = <<>> THEN Ok(ref)
    ELSE LET seg == Head(segs)
             rest == Tail(segs)
             enter(step) == Eval(Append(ref, step),
                                 LAMBDA below : resolve_segments(data, below, rest))
         IN  Eval(NodeAt(data, ref), LAMBDA obj :
             CASE seg.type = "attr" ->
                    IF ~hasattr(obj, seg.value)
                    THEN Err("ValueError", (* "Object has no attribute '" *) <<"O","b","j","e","c","t"," ","h","a","s"," ","n","o"," ","a","t","t","r","i","b","u","t","e"," ","'">>
                                           \o seg.value \o (* "'" *) <<"'">>)
                    ELSE enter([s |-> "attr", name |-> seg.value])
               [] seg.type = "key" ->
                    IF obj.k \in {"coll", "struct"}     \* hasattr(obj, 'get')
                    THEN IF obj.k = "coll" /\ ItemIndex(obj, seg.value) # 0
                         THEN enter([s |-> "item", i |-> ItemIndex(obj, seg.value)])
                         ELSE Err("ValueError", (* "Key '" *) <<"K","e","y"," ","'">> \o seg.value
                                                \o (* "' not found" *) <<"'"," ","n","o","t"," ","f","o","u","n","d">>)
                    ELSE Err("ValueError", (* "Cannot use key access on " *) <<"C","a","n","n","o","t"," ","u","s","e"," ","k","e","y"," ","a","c","c","e","s","s"," ","o","n"," ">>
                                           \o TypeText(obj))
               [] seg.type = "index" ->
                    Eval(host_getitem(obj, seg), LAMBDA r :
                        IF r.ok THEN enter(r.val)
                        ELSE Err("ValueError", (* "Cannot access index " *) <<"C","a","n","n","o","t"," ","a","c","c","e","s","s"," ","i","n","d","e","x"," ">>
                                               \o IntText(seg.index) \o (* ": " *) <<":"," ">>
                                               \o r.err)))

\* str(ALLOWED_ROOTS), in the order of the source
AllowedRootsText ==
    (* "{'objects', 'meshes', 'materials', 'node_groups', 'collections', 'lights', 'cameras', 'curves', 'textures', 'images', 'armatures', 'actions', 'particles', 'worlds', 'scenes', 'texts', 'fonts', 'grease_pencils', 'libraries', 'brushes', 'palettes', 'lattices'}" *) <<"{","'","o","b","j","e","c","t","s","'",","," ","'","m","e","s","h","e","s","'",","," ","'","m","a","t","e","r","i","a","l","s","'",","," ","'","n","o","d","e","_","g","r","o","u","p","s","'",","," ","'","c","o","l","l","e","c","t","i","o","n","s","'",","," ","'","l","i","g","h","t","s","'",","," ","'","c","a","m","e","r","a","s","'",","," ","'","c","u","r","v","e","s","'",","," ","'","t","e","x","t","u","r","e","s","'",","," ","'","i","m","a","g","e","s","'",","," ","'","a","r","m","a","t","u","r","e","s","'",","," ","'","a","c","t","i","o","n","s","'",","," ","'","p","a","r","t","i","c","l","e","s","'",","," ","'","w","o","r","l","d","s","'",","," ","'","s","c","e","n","e","s","'",","," ","'","t","e","x","t","s","'",","," ","'","f","o","n","t","s","'",","," ","'","g","r","e","a","s","e","_","p","e","n","c","i","l","s","'",","," ","'","l","i","b","r","a","r","i","e","s","'",","," ","'","b","r","u","s","h","e","s","'",","," ","'","p","a","l","e","t","t","e","s","'",","," ","'","l","a","t","t","i","c","e","s","'","}">>

\* resolve_path(path): a reference into bpy.data, or the ValueError raised
resolve_path(data, path) ==
    IF path = <<>> THEN Err("ValueError", (* "Empty path" *) <<"E","m","p","t","y"," ","p","a","t","h">>)
    ELSE Eval(tokenize_path(path), LAMBDA t :
           IF ~t.ok THEN t
           ELSE IF t.val = <<>>
           THEN Err("ValueError", (* "No valid segments in path" *) <<"N","o"," ","v","a","l","i","d"," ","s","e","g","m","e","n","t","s"," ","i","n"," ","p","a","t","h">>)
           ELSE IF t.val[1].type # "attr"
           THEN Err("ValueError",
                    (* "Path must start with a collection name, got: " *) <<"P","a","t","h"," ","m","u","s","t"," ","s","t","a","r","t"," ","w","i","t","h"," ","a"," ","c","o","l","l","e","c","t","i","o","n"," ","n","a","m","e",","," ","g","o","t",":"," ">> \o path)
           ELSE IF t.val[1].value \notin ALLOWED_ROOTS
           THEN Err("ValueError", (* "Unknown root collection: " *) <<"U","n","k","n","o","w","n"," ","r","o","o","t"," ","c","o","l","l","e","c","t","i","o","n",":"," ">> \o t.val[1].value
                                  \o (* ". Allowed: " *) <<"."," ","A","l","l","o","w","e","d",":"," ">> \o AllowedRootsText)
           ELSE resolve_segments(data,
                   <<[s |-> "attr", name |-> t.val[1].value]>>, Tail(t.val)))

\* the navigation loops of get_property and set_property
RECURSIVE navigate(_, _, _)
navigate(data, ref, segs) ==
    IF segs = <<>> THEN Ok(ref)
    ELSE LET seg == Head(segs)
             rest == Tail(segs)
         IN  Eval(IF seg.type = "attr"
                  THEN host_getattr(NodeAt(data, ref), seg.value)
                  ELSE host_getitem(NodeAt(data, ref), seg),
                  LAMBDA r :
                    IF r.ok
                    THEN Eval(Append(ref, r.val),
                              LAMBDA below : navigate(data, below, rest))
                    ELSE r)

\* to_json_value(value)
to_json_value(value) ==
    CASE value.k = "int" -> [json |-> "int", v |-> value.m]
      [] value.k = "vec" -> [json |-> "list", v |-> value.m]
      [] value.k = "coll" ->
           [json |-> "names", v |-> [i \in 1..Len(value.items) |-> value.items[i].name]]
      [] value.k = "struct" -> [json |-> "name", v |-> value.cls]

\* get_property(target, path)
get_property(data, target, path) ==
    Eval(resolve_path(data, target), LAMBDA o :
      IF ~o.ok THEN o
      ELSE IF path = <<>> THEN Ok(to_json_value(NodeAt(data, o.val)))
      ELSE Eval(tokenize_path(path), LAMBDA t :
             IF ~t.ok THEN t
             ELSE Eval(navigate(data, o.val, t.val), LAMBDA n :
                    IF n.ok THEN Ok(to_json_value(NodeAt(data, n.val)))
                    ELSE n)))

\* setattr / item assignment by the host: integer values into integer slots
host_set(data, ref, step, value) ==
    LET obj == NodeAt(data, ref)
    IN  IF step.ok
        THEN IF NodeAt(data, Append(ref, step.val)).k = "int"
             THEN Ok(Replace(data, Append(ref, step.val), IntNode(value)))
             ELSE Err("TypeError", (* "bpy_struct: item.attr = val: expected sequence items of type float, not int" *) <<"b","p","y","_","s","t","r","u","c","t",":"," ","i","t","e","m",".","a","t","t","r"," ","="," ","v","a","l",":"," ","e","x","p","e","c","t","e","d"," ","s","e","q","u","e","n","c","e"," ","i","t","e","m","s"," ","o","f"," ","t","y","p","e"," ","f","l","o","a","t",","," ","n","o","t"," ","i","n","t">>)
        ELSE step

\* set_property(target, path, value): bpy.data after the write, or the error
set_property(data, target, path, value) ==
    Eval(resolve_path(data, target), LAMBDA o :
      IF ~o.ok THEN o
      ELSE IF path = <<>>
      THEN Err("ValueError", (* "Property path is required for set operation" *) <<"P","r","o","p","e","r","t","y"," ","p","a","t","h"," ","i","s"," ","r","e","q","u","i","r","e","d"," ","f","o","r"," ","s","e","t"," ","o","p","e","r","a","t","i","o","n">>)
      ELSE Eval(tokenize_path(path), LAMBDA t :
             IF ~t.ok THEN t
             ELSE IF t.val = <<>>
             THEN Err("IndexError", (* "list index out of range" *) <<"l","i","s","t"," ","i","n","d","e","x"," ","o","u","t"," ","o","f"," ","r","a","n","g","e">>)
             ELSE Eval(navigate(data, o.val, SubSeq(t.val, 1, Len(t.val) - 1)),
                       LAMBDA n :
                    IF ~n.ok THEN n
                    ELSE LET obj == NodeAt(data, n.val)
                             final == t.val[Len(t.val)]
                         IN  IF final.type = "attr"
                             THEN host_set(data, n.val,
                                           host_getattr(obj, final.value), value)
                             ELSE host_set(data, n.val,
                                           host_getitem(obj, final), value))))

(***************************************************************************)
(* commands/handlers.py.  A command returns its result and the host state  *)
(* it leaves.  env holds what the host decides during the call: whether    *)
(* bpy.ops.ed.undo_push succeeds (undo_ok), whether the called operator    *)
(* runs (op_ok) and whether bpy.data can be read (data_ok).  Property      *)
(* values are integers.                                                    *)
(***************************************************************************)
\* what a host that lets bpy.data be read can decide
Envs == [undo_ok : BOOLEAN, op_ok : BOOLEAN, data_ok : {TRUE}]

\* what any host can decide
EnvsAnyHost == [undo_ok : BOOLEAN, op_ok : BOOLEAN, data_ok : BOOLEAN]

\* str(e) of the RuntimeError of an operator whose poll() fails
PollFailed(op) ==
    (* "Operator bpy.ops." *) <<"O","p","e","r","a","t","o","r"," ","b","p","y",".","o","p","s",".">> \o op \o (* ".poll() failed, context is incorrect" *) <<".","p","o","l","l","(",")"," ","f","a","i","l","e","d",","," ","c","o","n","t","e","x","t"," ","i","s"," ","i","n","c","o","r","r","e","c","t">>

\* bpy.ops.ed.undo_push(...): the host after the call, or the error raised
undo_push(h, env) ==
    IF env.undo_ok THEN Ok([h EXCEPT !.undo = @ + 1])
    ELSE Err("RuntimeError", PollFailed((* "ed.undo_push" *) <<"e","d",".","u","n","d","o","_","p","u","s","h">>))

\* str.split(c)
RECURSIVE Split(_, _)
Split(s, c) ==
    Eval(RunNot(s, 1, c), LAMBDA e :
      IF e > Len(s) THEN <<s>>
      ELSE <<SubSeq(s, 1, e - 1)>>
           \o Eval(SubSeq(s, e + 1, Len(s)), LAMBDA rest : Split(rest, c)))

cmd_property_get(h, target, params, env) ==
    Eval(get_property(h.data, target, Get(params, "path", <<>>)), LAMBDA value :
      [host |-> h,
       result |-> IF value.ok THEN [success |-> TRUE, data |-> value.val]
                  ELSE [success |-> FALSE, error |-> value.err]])

\* re.match(r"^(\w+\['[^']+'\])(\.(.+))?$", target): groups 1 and 3
TargetSplit(target) ==
    LET n == Len(target)
        at(i) == IF i >= 1 /\ i <= n THEN target[i] ELSE ""
        e == RunIn(target, 1, (IdStart \cup Digits))
        q == RunNot(target, e + 2, "'")
    IN  IF /\ e > 1 /\ at(e) = "[" /\ at(e + 1) = "'"
           /\ q > e + 2 /\ at(q) = "'" /\ at(q + 1) = "]"
           /\ (q + 1 = n \/ (at(q + 2) = "." /\ n >= q + 3))
        THEN [matched |-> TRUE, obj_target |-> SubSeq(target, 1, q + 1),
              path |-> SubSeq(target, q + 3, n)]
        ELSE [matched |-> FALSE]

\* traceback.format_exc() for an exception raised below cmd_property_set
format_exc(call, e) ==
    (* "Traceback (most recent call last):\n  File \"commands/handlers.py\", in cmd_property_set\n    " *) <<"T","r","a","c","e","b","a","c","k"," ","(","m","o","s","t"," ","r","e","c","e","n","t"," ","c","a","l","l"," ","l","a","s","t",")",":","\n"," "," ","F","i","l","e"," ","\"","c","o","m","m","a","n","d","s","/","h","a","n","d","l","e","r","s",".","p","y","\"",","," ","i","n"," ","c","m","d","_","p","r","o","p","e","r","t","y","_","s","e","t","\n"," "," "," "," ">>
    \o call \o (* "\n" *) <<"\n">> \o e.exc \o (* ": " *) <<":"," ">> \o e.err \o (* "\n" *) <<"\n">>

cmd_property_set(h, target0, params, env) ==
    LET fail(msg) == [host |-> h, result |-> [success |-> FALSE, error |-> msg]]
        has_path == "path" \in DOMAIN params
    IN  Eval(TargetSplit(target0), LAMBDA split :
        LET target == IF has_path THEN target0
                      ELSE IF split.matched THEN split.obj_target ELSE target0
            path == IF has_path THEN params.path
                    ELSE IF split.matched THEN split.path ELSE <<>>
        IN  IF "value" \notin DOMAIN params
            THEN fail((* "Missing 'value' parameter" *) <<"M","i","s","s","i","n","g"," ","'","v","a","l","u","e","'"," ","p","a","r","a","m","e","t","e","r">>)
            ELSE IF ~has_path /\ ~split.matched
            THEN fail((* "Cannot parse target path: " *) <<"C","a","n","n","o","t"," ","p","a","r","s","e"," ","t","a","r","g","e","t"," ","p","a","t","h",":"," ">> \o target0
                      \o (* ". Expected format: collection['name'].property" *) <<"."," ","E","x","p","e","c","t","e","d"," ","f","o","r","m","a","t",":"," ","c","o","l","l","e","c","t","i","o","n","[","'","n","a","m","e","'","]",".","p","r","o","p","e","r","t","y">>)
            ELSE IF path = <<>>
            THEN fail((* "Property path is required" *) <<"P","r","o","p","e","r","t","y"," ","p","a","t","h"," ","i","s"," ","r","e","q","u","i","r","e","d">>)
            ELSE Eval(resolve_path(h.data, target), LAMBDA obj :
                 IF ~obj.ok
                 THEN fail((* "Cannot resolve target '" *) <<"C","a","n","n","o","t"," ","r","e","s","o","l","v","e"," ","t","a","r","g","e","t"," ","'">> \o target \o (* "': " *) <<"'",":"," ">> \o obj.err)
                 ELSE Eval(IF undo_push(h, env).ok THEN undo_push(h, env).val ELSE h,
                           LAMBDA h1 :
                      Eval(set_property(h1.data, target, path, params.value),
                           LAMBDA written :
                        IF ~written.ok
                        THEN [host |-> h1,
                              result |-> [success |-> FALSE,
                                          error |-> written.err \o (* "\n" *) <<"\n">>
                                            \o format_exc((* "set_property(target, path, value)" *) <<"s","e","t","_","p","r","o","p","e","r","t","y","(","t","a","r","g","e","t",","," ","p","a","t","h",","," ","v","a","l","u","e",")">>,
                                                          written)]]
                        ELSE Eval([h1 EXCEPT !.data = written.val], LAMBDA h2 :
                             Eval(get_property(h2.data, target, path),
                                  LAMBDA new_value :
                               IF ~new_value.ok
                               THEN [host |-> h2,
                                     result |-> [success |-> FALSE,
                                                 error |-> new_value.err \o (* "\n" *) <<"\n">>
                                                   \o format_exc((* "new_value = get_property(target, path)" *) <<"n","e","w","_","v","a","l","u","e"," ","="," ","g","e","t","_","p","r","o","p","e","r","t","y","(","t","a","r","g","e","t",","," ","p","a","t","h",")">>,
                                                                 new_value)]]
                               ELSE [host |-> h2,
                                     result |-> [success |-> TRUE,
                                                 data |-> new_value.val]]))))))

\* the loop of cmd_property_set_batch: <<bpy.data, count, errors>> after it
RECURSIVE set_batch_loop(_, _, _, _, _)
set_batch_loop(data, target, properties, count, errors) ==
    IF properties = <<>> THEN [data |-> data, count |-> count, errors |-> errors]
    ELSE LET prop == Head(properties)
             rest == Tail(properties)
         IN  IF "path" \in DOMAIN prop /\ "value" \in DOMAIN prop
             THEN Eval(set_property(data, target, prop.path, prop.value), LAMBDA r :
                    IF r.ok
                    THEN set_batch_loop(r.val, target, rest, count + 1, errors)
                    ELSE Eval(Append(errors, prop.path \o (* ": " *) <<":"," ">> \o r.err),
                              LAMBDA more :
                                set_batch_loop(data, target, rest, count, more)))
             ELSE set_batch_loop(data, target, rest, count, errors)

cmd_property_set_batch(h, target, params, env) ==
    LET properties == Get(params, "properties", <<>>)
        pushed == undo_push(h, env)
    IN  IF properties = <<>>
        THEN [host |-> h,
              result |-> [success |-> FALSE, error |-> (* "No properties to set" *) <<"N","o"," ","p","r","o","p","e","r","t","i","e","s"," ","t","o"," ","s","e","t">>]]
        ELSE IF ~pushed.ok
        THEN [host |-> h, result |-> [success |-> FALSE, error |-> pushed.err]]
        ELSE Eval(set_batch_loop(h.data, target, properties, 0, <<>>), LAMBDA done :
             LET h1 == [pushed.val EXCEPT !.data = done.data]
             IN  IF done.errors # <<>>
                 THEN [host |-> h1,
                       result |-> [success |-> TRUE, count |-> done.count,
                                   warnings |-> done.errors]]
                 ELSE [host |-> h1,
                       result |-> [success |-> TRUE, count |-> done.count]])

\* the operators the host has (bpy.ops.<category>.<name>)
HostOperators ==
    {(* "object.duplicate" *) <<"o","b","j","e","c","t",".","d","u","p","l","i","c","a","t","e">>, (* "wm.quit_blender" *) <<"w","m",".","q","u","i","t","_","b","l","e","n","d","e","r">>, (* "wm.save_mainfile" *) <<"w","m",".","s","a","v","e","_","m","a","i","n","f","i","l","e">>,
     (* "render.render" *) <<"r","e","n","d","e","r",".","r","e","n","d","e","r">>, (* "preferences.addon_install" *) <<"p","r","e","f","e","r","e","n","c","e","s",".","a","d","d","o","n","_","i","n","s","t","a","l","l">>, (* "script.python_file_run" *) <<"s","c","r","i","p","t",".","p","y","t","h","o","n","_","f","i","l","e","_","r","u","n">>}

\* a variant of cmd_operator_call without the blacklist test;
\* C7_OperatorGate tells it from cmd_operator_call
cmd_operator_call_unchecked(h, target, params, env) ==
    LET fail(msg) == [host |-> h, result |-> [success |-> FALSE, error |-> msg]]
        pushed == undo_push(h, env)
    IN  Eval(Split(target, "."), LAMBDA parts :
        LET category == parts[1]
            name == parts[2]
            full_name == category \o (* "." *) <<".">> \o name
        IN  IF Len(parts) # 2
            THEN fail((* "Invalid operator path: " *) <<"I","n","v","a","l","i","d"," ","o","p","e","r","a","t","o","r"," ","p","a","t","h",":"," ">> \o target)
            ELSE IF category \notin SAFE_CATEGORIES
            THEN fail((* "Operator category '" *) <<"O","p","e","r","a","t","o","r"," ","c","a","t","e","g","o","r","y"," ","'">> \o category \o (* "' is not allowed" *) <<"'"," ","i","s"," ","n","o","t"," ","a","l","l","o","w","e","d">>)
            ELSE IF full_name \notin HostOperators
            THEN fail((* "Unknown operator: " *) <<"U","n","k","n","o","w","n"," ","o","p","e","r","a","t","o","r",":"," ">> \o full_name)
            ELSE IF ~pushed.ok
            THEN fail(pushed.err)
            ELSE IF ~env.op_ok
            THEN [host |-> pushed.val,
                  result |-> [success |-> FALSE, error |-> PollFailed(full_name)]]
            ELSE [host |-> [pushed.val EXCEPT !.ops = Append(@, full_name)],
                  result |-> [success |-> TRUE,
                              data |-> [result |-> (* "{'FINISHED'}" *) <<"{","'","F","I","N","I","S","H","E","D","'","}">>]]])

cmd_operator_call(h, target, params, env) ==
    LET fail(msg) == [host |-> h, result |-> [success |-> FALSE, error |-> msg]]
        pushed == undo_push(h, env)
    IN  Eval(Split(target, "."), LAMBDA parts :
        LET category == parts[1]
            name == parts[2]
            full_name == category \o (* "." *) <<".">> \o name
        IN  IF Len(parts) # 2
            THEN fail((* "Invalid operator path: " *) <<"I","n","v","a","l","i","d"," ","o","p","e","r","a","t","o","r"," ","p","a","t","h",":"," ">> \o target)
            ELSE IF full_name \in BLOCKED_OPERATORS
            THEN fail((* "Operator '" *) <<"O","p","e","r","a","t","o","r"," ","'">> \o full_name \o (* "' is blocked for security" *) <<"'"," ","i","s"," ","b","l","o","c","k","e","d"," ","f","o","r"," ","s","e","c","u","r","i","t","y">>)
            ELSE IF category \notin SAFE_CATEGORIES
            THEN fail((* "Operator category '" *) <<"O","p","e","r","a","t","o","r"," ","c","a","t","e","g","o","r","y"," ","'">> \o category \o (* "' is not allowed" *) <<"'"," ","i","s"," ","n","o","t"," ","a","l","l","o","w","e","d">>)
            ELSE IF ~\E op \in HostOperators : Split(op, ".")[1] = category
            THEN fail((* "Unknown operator category: " *) <<"U","n","k","n","o","w","n"," ","o","p","e","r","a","t","o","r"," ","c","a","t","e","g","o","r","y",":"," ">> \o category)
            ELSE IF full_name \notin HostOperators
            THEN fail((* "Unknown operator: " *) <<"U","n","k","n","o","w","n"," ","o","p","e","r","a","t","o","r",":"," ">> \o full_name)
            ELSE IF ~pushed.ok
            THEN fail(pushed.err)
            ELSE IF ~env.op_ok
            THEN [host |-> pushed.val,
                  result |-> [success |-> FALSE, error |-> PollFailed(full_name)]]
            ELSE [host |-> [pushed.val EXCEPT !.ops = Append(@, full_name)],
                  result |-> [success |-> TRUE,
                              data |-> [result |-> (* "{'FINISHED'}" *) <<"{","'","F","I","N","I","S","H","E","D","'","}">>]]])

\* the registered commands that are modelled
COMMAND_HANDLERS ==
    {(* "property.get" *) <<"p","r","o","p","e","r","t","y",".","g","e","t">>, (* "property.set" *) <<"p","r","o","p","e","r","t","y",".","s","e","t">>, (* "property.set_batch" *) <<"p","r","o","p","e","r","t","y",".","s","e","t","_","b","a","t","c","h">>, (* "operator.call" *) <<"o","p","e","r","a","t","o","r",".","c","a","l","l">>}

\* handle_command(action, target, params)
handle_command(h, action, target, params, env) ==
    CASE action = (* "property.get" *) <<"p","r","o","p","e","r","t","y",".","g","e","t">> -> cmd_property_get(h, target, params, env)
      [] action = (* "property.set" *) <<"p","r","o","p","e","r","t","y",".","s","e","t">> -> cmd_property_set(h, target, params, env)
      [] action = (* "property.set_batch" *) <<"p","r","o","p","e","r","t","y",".","s","e","t","_","b","a","t","c","h">> ->
           cmd_property_set_batch(h, target, params, env)
      [] action = (* "operator.call" *) <<"o","p","e","r","a","t","o","r",".","c","a","l","l">> -> cmd_operator_call(h, target, params, env)
      [] OTHER -> [host |-> h,
                   result |-> [success |-> FALSE,
                               error |-> (* "Unknown command: " *) <<"U","n","k","n","o","w","n"," ","c","o","m","m","a","n","d",":"," ">> \o action]]

(***************************************************************************)
(* connection.handle_request                                               *)
(***************************************************************************)
\* make_response of handle_request: data <<>>, error <<>> and error_code ""
\* stand for None; data <<x>> is the value x
make_response(request_id, action, version, data, error, error_code, warnings, force_legacy) ==
    LET use_v1 == is_protocol_v1(version) /\ ~force_legacy
    IN  IF use_v1
        THEN IF error # <<>>
             THEN create_response(request_id, FALSE, <<>>,
                                  IF error_code # "" THEN error_code
                                  ELSE "INTERNAL_ERROR",
                                  error, <<>>, action)
             ELSE create_response(request_id, TRUE, data, "", <<>>, warnings, action)
        ELSE [type |-> "response", id |-> request_id, action |-> action]
             @@ (IF error # <<>>
                 THEN [error |-> error]
                      @@ (IF error_code # "" THEN [error_code |-> error_code]
                          ELSE <<>>)
                 ELSE [ok |-> TRUE, data |-> IF data # <<>> THEN data[1] ELSE None]
                      @@ (IF warnings # <<>> THEN [warnings |-> warnings]
                          ELSE <<>>))

\* the mapping of a command's error message to a protocol error code
command_error_code(error_msg) ==
    Eval(Lower(error_msg), LAMBDA msg :
      IF Contains(msg, (* "not found" *) <<"n","o","t"," ","f","o","u","n","d">>) THEN "NOT_FOUND"
      ELSE IF Contains(msg, (* "invalid" *) <<"i","n","v","a","l","i","d">>) \/ Contains(msg, (* "param" *) <<"p","a","r","a","m">>)
      THEN "INVALID_PARAMS"
      ELSE IF Contains(msg, (* "context" *) <<"c","o","n","t","e","x","t">>) \/ Contains(msg, (* "mode" *) <<"m","o","d","e">>)
      THEN "INVALID_CONTEXT"
      ELSE IF Contains(msg, (* "operator" *) <<"o","p","e","r","a","t","o","r">>) THEN "OPERATOR_FAILED"
      ELSE "INTERNAL_ERROR")

\* a variant of handle_request_failed that logs the exception and answers
\* nothing; C28_ExceptionAnswered tells it from handle_request_failed
handle_request_failed_silently(request_id, action, version, queue, h, e) ==
    [version |-> version, queue |-> queue, response |-> <<>>, host |-> h]

\* the except clause of handle_request: e is str(e) of the exception raised
\* in the try block
handle_request_failed(request_id, action, version, queue, h, e) ==
    [version |-> version, queue |-> queue, host |-> h,
     response |-> <<make_response(request_id, action, version, <<>>, e,
                                  "INTERNAL_ERROR", <<>>, FALSE)>>]

\* str(e) of the AttributeError of bpy.data.filepath while the host restricts
\* bpy.data
RestrictedData == (* "'_RestrictData' object has no attribute 'filepath'" *) <<"'","_","R","e","s","t","r","i","c","t","D","a","t","a","'"," ","o","b","j","e","c","t"," ","h","a","s"," ","n","o"," ","a","t","t","r","i","b","u","t","e"," ","'","f","i","l","e","p","a","t","h","'">>

\* a variant of handle_upgrade that refuses the version that is already
\* active; C6_UpgradeIdempotent tells it from handle_upgrade
handle_upgrade_once(request_id, action, params, version, queue, h, env) ==
    LET same(resp) == [version |-> version, queue |-> queue, response |-> <<resp>>,
                       host |-> h]
    IN  IF "version" \notin DOMAIN params
        THEN same(make_response(request_id, action, version, <<>>,
                                (* "Missing 'version' parameter" *) <<"M","i","s","s","i","n","g"," ","'","v","e","r","s","i","o","n","'"," ","p","a","r","a","m","e","t","e","r">>, "INVALID_PARAMS",
                                <<>>, TRUE))
        ELSE IF ~InList(params.version, SUPPORTED_PROTOCOL_VERSIONS)
                \/ params.version = version
        THEN same(make_response(request_id, action, version,
                                <<[supported_versions |-> SUPPORTED_PROTOCOL_VERSIONS]>>,
                                (* "Unsupported protocol version: " *) <<"U","n","s","u","p","p","o","r","t","e","d"," ","p","r","o","t","o","c","o","l"," ","v","e","r","s","i","o","n",":"," ">>
                                \o IntText(params.version),
                                "UNSUPPORTED_VERSION", <<>>, TRUE))
        ELSE [version |-> params.version,
              queue |-> queue
                 \o <<make_response(request_id, action, params.version,
                                    <<[version |-> params.version]>>, <<>>, "",
                                    <<>>, TRUE),
                      create_event("event.scene.connected",
                                   event_scene_connected("4.0.0", "1.0.0",
                                                         "(unsaved)"),
                                   <<>>)>>,
              response |-> <<>>, host |-> h]

\* the protocol.upgrade branch of handle_request; when the host refuses the
\* read of bpy.data.filepath the exception leaves the try block after the
\* acknowledgment was queued
handle_upgrade(request_id, action, params, version, queue, h, env) ==
    LET same(resp) == [version |-> version, queue |-> queue, response |-> <<resp>>,
                       host |-> h]
    IN  IF "version" \notin DOMAIN params
        THEN same(make_response(request_id, action, version, <<>>,
                                (* "Missing 'version' parameter" *) <<"M","i","s","s","i","n","g"," ","'","v","e","r","s","i","o","n","'"," ","p","a","r","a","m","e","t","e","r">>, "INVALID_PARAMS",
                                <<>>, TRUE))
        ELSE IF ~InList(params.version, SUPPORTED_PROTOCOL_VERSIONS)
        THEN same(make_response(request_id, action, version,
                                <<[supported_versions |-> SUPPORTED_PROTOCOL_VERSIONS]>>,
                                (* "Unsupported protocol version: " *) <<"U","n","s","u","p","p","o","r","t","e","d"," ","p","r","o","t","o","c","o","l"," ","v","e","r","s","i","o","n",":"," ">>
                                \o IntText(params.version),
                                "UNSUPPORTED_VERSION", <<>>, TRUE))
        ELSE LET new_version == params.version
                 response == make_response(request_id, action, new_version,
                                           <<[version |-> new_version]>>, <<>>, "",
                                           <<>>, TRUE)
                 queued == Append(queue, response)
                 connected_event ==
                     create_event("event.scene.connected",
                                  event_scene_connected("4.0.0", "1.0.0", "(unsaved)"),
                                  <<>>)
             IN  IF new_version >= 1
                 THEN IF env.data_ok
                      THEN [version |-> new_version,
                            queue |-> Append(queued, connected_event),
                            response |-> <<>>, host |-> h]
                      ELSE handle_request_failed(request_id, action, new_version,
                                                 queued, h, RestrictedData)
                 ELSE [version |-> new_version, queue |-> queued,
                       response |-> <<>>, host |-> h]

\* str(e) of the AttributeError of params.get when "params" is JSON null
NoneHasNoGet == (* "'NoneType' object has no attribute 'get'" *) <<"'","N","o","n","e","T","y","p","e","'"," ","o","b","j","e","c","t"," ","h","a","s"," ","n","o"," ","a","t","t","r","i","b","u","t","e"," ","'","g","e","t","'">>

\* handle_request(request_data): the session version, the outbound queue
\* and the host after the call, and the response returned (<<>> for None)
handle_request(request_data, version, queue, h, env) ==
    LET action == request_data.action
        request_id == Get(request_data, "id", "unknown")
        target == Get(request_data, "target", <<>>)
        params == Get(request_data, "params", <<>>)
        same(resp) == [version |-> version, queue |-> queue, response |-> <<resp>>,
                       host |-> h]
    IN  IF action = (* "protocol.upgrade" *) <<"p","r","o","t","o","c","o","l",".","u","p","g","r","a","d","e">>
        THEN IF params = None
             THEN handle_request_failed(request_id, action, version, queue, h,
                                        NoneHasNoGet)
             ELSE handle_upgrade(request_id, action, params, version, queue, h, env)
        ELSE IF action = (* "ping" *) <<"p","i","n","g">>
        THEN same(make_response(request_id, action, version, <<[pong |-> TRUE]>>,
                                <<>>, "", <<>>, FALSE))
        ELSE IF action \in COMMAND_HANDLERS
        THEN Eval(handle_command(h, action, target, params, env), LAMBDA done :
             LET result == done.result
                 error_msg == Get(result, "error", (* "Unknown error" *) <<"U","n","k","n","o","w","n"," ","e","r","r","o","r">>)
             IN  [version |-> version, queue |-> queue, host |-> done.host,
                  response |->
                    <<IF result.success
                      THEN make_response(request_id, action, version,
                               IF "data" \in DOMAIN result THEN <<result.data>>
                               ELSE <<>>,
                               <<>>, "", Get(result, "warnings", <<>>), FALSE)
                      ELSE make_response(request_id, action, version, <<>>,
                               error_msg, command_error_code(error_msg), <<>>,
                               FALSE)>>])
        ELSE same(make_response(request_id, action, version, <<>>,
                                (* "Unknown action: " *) <<"U","n","k","n","o","w","n"," ","a","c","t","i","o","n",":"," ">> \o action, "NOT_FOUND", <<>>,
                                FALSE))

(***************************************************************************)
(* throttle.py.  T is the module's state: the five dictionaries.  Lists of *)
(* object names are sets: the engine merges them as sets and emits them in *)
(* no particular order.                                                    *)
(***************************************************************************)
\* one unit of model time, in milliseconds
TickMs == 50

_throttle_interval == 2     \* 0.1 s

\* the shortest delay _flush_pending_events returns, in milliseconds
MinDelayMs == 10

\* max(0.01, next_flush_time), in units of model time, rounded up
rearm_delay(next_flush_time) ==
    IF next_flush_time * TickMs >= MinDelayMs THEN next_flush_time
    ELSE (MinDelayMs + TickMs - 1) \div TickMs

ThrottleState ==
    [_pending_events |-> _pending_events, _dirty_reasons |-> _dirty_reasons,
     _coalesced_data |-> _coalesced_data, _event_count |-> _event_count,
     _new_type_map |-> _new_type_map]

\* throttle.register(): every dictionary cleared
ThrottleCleared ==
    [_pending_events |-> <<>>, _dirty_reasons |-> <<>>, _coalesced_data |-> <<>>,
     _event_count |-> <<>>, _new_type_map |-> <<>>]

\* the fields whose values are merged across submissions
CoalescedFields ==
    {"changed_object_ids", "geometry_changed_ids", "changed_objects",
     "geometry_changed"}

\* the position of event_type in _pending_events, or 0
PendingIndex(pending, event_type) ==
    IF \E i \in 1..Len(pending) : pending[i].key = event_type
    THEN CHOOSE i \in 1..Len(pending) : pending[i].key = event_type
    ELSE 0

\* a variant of throttle_event that keeps only the arrays of the latest
\* submission; C4_Coalescing tells it from throttle_event
throttle_event_latest(T, event_type, event_data, reason, new_type, t) ==
    LET fresh == event_type \notin DOMAIN T._coalesced_data
        merged == [f \in CoalescedFields |->
                     IF f \in DOMAIN event_data THEN event_data[f] ELSE {}]
        count == IF fresh THEN 0 ELSE T._event_count[event_type]
        entry == [key |-> event_type, data |-> event_data, timestamp |-> t]
        at == PendingIndex(T._pending_events, event_type)
    IN  [_new_type_map |-> IF new_type # ""
                           THEN (event_type :> new_type) @@ T._new_type_map
                           ELSE T._new_type_map,
         _coalesced_data |-> (event_type :> merged) @@ T._coalesced_data,
         _event_count |-> (event_type :> (count + 1)) @@ T._event_count,
         _pending_events |-> IF at = 0 THEN Append(T._pending_events, entry)
                             ELSE [T._pending_events EXCEPT ![at] = entry],
         _dirty_reasons |-> IF reason # ""
                            THEN (event_type :>
                                    (Get(T._dirty_reasons, event_type, {})
                                     \cup {reason}))
                                 @@ T._dirty_reasons
                            ELSE T._dirty_reasons]

\* throttle_event(event_type, event_data, reason, new_type) at time t;
\* reason "" and new_type "" stand for None
throttle_event(T, event_type, event_data, reason, new_type, t) ==
    LET fresh == event_type \notin DOMAIN T._coalesced_data
        coalesced == IF fresh THEN [f \in CoalescedFields |-> {}]
                     ELSE T._coalesced_data[event_type]
        merged == [f \in CoalescedFields |->
                     IF f \in DOMAIN event_data
                     THEN coalesced[f] \cup event_data[f] ELSE coalesced[f]]
        count == IF fresh THEN 0 ELSE T._event_count[event_type]
        entry == [key |-> event_type, data |-> event_data, timestamp |-> t]
        at == PendingIndex(T._pending_events, event_type)
    IN  [_new_type_map |-> IF new_type # ""
                           THEN (event_type :> new_type) @@ T._new_type_map
                           ELSE T._new_type_map,
         _coalesced_data |-> (event_type :> merged) @@ T._coalesced_data,
         _event_count |-> (event_type :> (count + 1)) @@ T._event_count,
         _pending_events |-> IF at = 0 THEN Append(T._pending_events, entry)
                             ELSE [T._pending_events EXCEPT ![at] = entry],
         _dirty_reasons |-> IF reason # ""
                            THEN (event_type :>
                                    (Get(T._dirty_reasons, event_type, {})
                                     \cup {reason}))
                                 @@ T._dirty_reasons
                            ELSE T._dirty_reasons]

\* _register_flush_timer(): the timer after the call
_register_flush_timer(timer, t) ==
    IF timer = <<>> THEN <<t + _throttle_interval>> ELSE timer

\* a variant of flush_event that reports the reasons of every pending kind;
\* C12_OnePerKind tells it from flush_event
flush_event_all_reasons(T, event_info, version) ==
    LET event_type == event_info.key
        coalesced == T._coalesced_data[event_type]
        arrays == IF event_type \in DOMAIN T._coalesced_data
                  THEN [f \in {g \in CoalescedFields : coalesced[g] # {}} |->
                          coalesced[f]]
                  ELSE <<>>
        batch_size == Get(T._event_count, event_type, 1)
        batch == IF batch_size > 1
                 THEN [batch_id |-> "uuid", batch_size |-> batch_size] ELSE <<>>
        all == UNION {T._dirty_reasons[k] : k \in DOMAIN T._dirty_reasons}
        reasons == IF all # {} THEN [reasons |-> all] ELSE <<>>
        event_data == reasons @@ batch @@ arrays @@ event_info.data
        new_type == Get(T._new_type_map, event_type, "")
    IN  IF is_protocol_v1(version) /\ new_type # ""
        THEN create_event(new_type, event_data, <<>>)
        ELSE event_data

\* the message a flush builds for one pending event
flush_event(T, event_info, version) ==
    LET event_type == event_info.key
        coalesced == T._coalesced_data[event_type]
        arrays == IF event_type \in DOMAIN T._coalesced_data
                  THEN [f \in {g \in CoalescedFields : coalesced[g] # {}} |->
                          coalesced[f]]
                  ELSE <<>>
        batch_size == Get(T._event_count, event_type, 1)
        batch == IF batch_size > 1
                 THEN [batch_id |-> "uuid", batch_size |-> batch_size] ELSE <<>>
        reasons == IF event_type \in DOMAIN T._dirty_reasons
                      /\ T._dirty_reasons[event_type] # {}
                   THEN [reasons |-> T._dirty_reasons[event_type]] ELSE <<>>
        event_data == reasons @@ batch @@ arrays @@ event_info.data
        new_type == Get(T._new_type_map, event_type, "")
    IN  IF is_protocol_v1(version) /\ new_type # ""
        THEN create_event(new_type, event_data, <<>>)
        ELSE event_data

\* _send_function(event) for each event in turn: the outbound queue after
RECURSIVE send_all(_, _, _)
send_all(queue, version, events) ==
    IF events = <<>> THEN queue
    ELSE send_all(send_to_blendmate(queue, version, Head(events)), version,
                  Tail(events))

\* the entries of a sequence that satisfy Test, in order
RECURSIVE SelectEntries(_, _)
SelectEntries(s, keep) ==
    IF s = <<>> THEN <<>>
    ELSE IF Head(s).key \in keep THEN <<Head(s)>> \o SelectEntries(Tail(s), keep)
    ELSE SelectEntries(Tail(s), keep)

\* a variant of _flush_pending_events that keeps the type mapping of the
\* kinds it flushes; C40_MapsAgree tells it from flush_pending_events
flush_pending_events_keeping_types(T, version, queue, t) ==
    LET pending == T._pending_events
        ready == {pending[i].key : i \in {j \in 1..Len(pending) :
                     t - pending[j].timestamp >= _throttle_interval}}
        waiting == {pending[i].key : i \in 1..Len(pending)} \ ready
        to_send == SelectEntries(pending, ready)
        events_to_send == [i \in 1..Len(to_send) |-> flush_event(T, to_send[i], version)]
        left == SelectEntries(pending, waiting)
        waits == {_throttle_interval - (t - left[i].timestamp) : i \in 1..Len(left)}
        next_flush_time == CHOOSE w \in waits : \A x \in waits : w <= x
    IN  IF pending = <<>>
        THEN [T |-> T, queue |-> queue, timer |-> <<>>, delay |-> <<>>]
        ELSE [T |-> [_pending_events |-> left,
                     _dirty_reasons |-> Without(T._dirty_reasons, ready),
                     _coalesced_data |-> Without(T._coalesced_data, ready),
                     _event_count |-> Without(T._event_count, ready),
                     _new_type_map |-> T._new_type_map],
              queue |-> send_all(queue, version, events_to_send),
              timer |-> IF left # <<>> THEN <<t + rearm_delay(next_flush_time)>>
                        ELSE <<>>,
              delay |-> IF left # <<>> THEN <<rearm_delay(next_flush_time)>>
                        ELSE <<>>]

\* _flush_pending_events() at time t: the state, the queue and the timer after
flush_pending_events(T, version, queue, t) ==
    LET pending == T._pending_events
        ready == {pending[i].key : i \in {j \in 1..Len(pending) :
                     t - pending[j].timestamp >= _throttle_interval}}
        waiting == {pending[i].key : i \in 1..Len(pending)} \ ready
        to_send == SelectEntries(pending, ready)
        events_to_send == [i \in 1..Len(to_send) |-> flush_event(T, to_send[i], version)]
        left == SelectEntries(pending, waiting)
        waits == {_throttle_interval - (t - left[i].timestamp) : i \in 1..Len(left)}
        next_flush_time == CHOOSE w \in waits : \A x \in waits : w <= x
    IN  IF pending = <<>>
        THEN [T |-> T, queue |-> queue, timer |-> <<>>, delay |-> <<>>]
        ELSE [T |-> [_pending_events |-> left,
                     _dirty_reasons |-> Without(T._dirty_reasons, ready),
                     _coalesced_data |-> Without(T._coalesced_data, ready),
                     _event_count |-> Without(T._event_count, ready),
                     _new_type_map |-> Without(T._new_type_map, ready)],
              queue |-> send_all(queue, version, events_to_send),
              timer |-> IF left # <<>> THEN <<t + rearm_delay(next_flush_time)>>
                        ELSE <<>>,
              delay |-> IF left # <<>> THEN <<rearm_delay(next_flush_time)>>
                        ELSE <<>>]

\* a variant of flush_immediate that sends each bucket's latest payload as
\* it was submitted; C33_ForcedFlushAgrees tells it from flush_immediate
flush_immediate_latest_only(T, version, queue) ==
    LET pending == T._pending_events
        events == [i \in 1..Len(pending) |-> pending[i].data]
    IN  IF pending = <<>> THEN [T |-> T, queue |-> queue]
        ELSE [T |-> ThrottleCleared, queue |-> send_all(queue, version, events)]

\* flush_immediate(): the state and the queue after
flush_immediate(T, version, queue) ==
    LET pending == T._pending_events
        events == [i \in 1..Len(pending) |-> flush_event(T, pending[i], version)]
    IN  IF pending = <<>> THEN [T |-> T, queue |-> queue]
        ELSE [T |-> ThrottleCleared, queue |-> send_all(queue, version, events)]

(***************************************************************************)
(* The bridge: the state after register(), the transport thread            *)
(* (connection.ws_thread) and the callbacks the host runs on its main      *)
(* thread.                                                                 *)
(***************************************************************************)
\* bpy.data as the commands see it: the collections the requests of the model
\* name.  window_managers is a collection of bpy.data but not a whitelisted root
BlendData ==
    LET Cube == StructNode((* "Object" *) <<"O","b","j","e","c","t">>,
                    ((* "hide_render" *) <<"h","i","d","e","_","r","e","n","d","e","r">> :> IntNode(0)) @@ ((* "show_name" *) <<"s","h","o","w","_","n","a","m","e">> :> IntNode(0))
                    @@ ((* "location" *) <<"l","o","c","a","t","i","o","n">> :> VecNode(<<0, 0, 0>>)))
        WinMan == StructNode((* "WindowManager" *) <<"W","i","n","d","o","w","M","a","n","a","g","e","r">>, ((* "is_dirty" *) <<"i","s","_","d","i","r","t","y">> :> IntNode(0)))
    IN  StructNode((* "BlendData" *) <<"B","l","e","n","d","D","a","t","a">>,
            ((* "objects" *) <<"o","b","j","e","c","t","s">> :> CollNode(<<[name |-> (* "Cube" *) <<"C","u","b","e">>, node |-> Cube]>>))
            @@ ((* "meshes" *) <<"m","e","s","h","e","s">> :> CollNode(<<>>))
            @@ ((* "window_managers" *) <<"w","i","n","d","o","w","_","m","a","n","a","g","e","r","s">> :>
                  CollNode(<<[name |-> (* "WinMan" *) <<"W","i","n","M","a","n">>, node |-> WinMan]>>)))

\* the host before any command: the undo stack's depth and the operators run
Host0 == [data |-> BlendData, undo |-> 0, ops |-> <<>>]

UpgradeRequest(id, version) ==
    [type |-> "request", id |-> id, action |-> (* "protocol.upgrade" *) <<"p","r","o","t","o","c","o","l",".","u","p","g","r","a","d","e">>,
     params |-> [version |-> version]]

CommandRequest(id, action, target, params) ==
    [type |-> "request", id |-> id, action |-> action, target |-> target,
     params |-> params]

\* what the counterpart sends over an open connection
Inbound(id) ==
    <<UpgradeRequest(id, 1),
      UpgradeRequest(id, 2),
      [type |-> "request", id |-> id, action |-> (* "protocol.upgrade" *) <<"p","r","o","t","o","c","o","l",".","u","p","g","r","a","d","e">>,
       params |-> None],
      CommandRequest(id, (* "operator.call" *) <<"o","p","e","r","a","t","o","r",".","c","a","l","l">>, (* "object.duplicate" *) <<"o","b","j","e","c","t",".","d","u","p","l","i","c","a","t","e">>, <<>>),
      [type |-> "response", id |-> id]>>

(***************************************************************************)
(* events/registry.py.  The registry's state R is the host's four handler  *)
(* lists (bpy.app.handlers), the host's set of registered timers           *)
(* (bpy.app.timers) and the module's two tracking lists.                   *)
(***************************************************************************)
handlers_to_register ==
    <<<<"save_post", "on_save_post">>,
      <<"load_post", "on_load_post">>,
      <<"depsgraph_update_post", "on_depsgraph_update">>,
      <<"frame_change_post", "on_frame_change">>>>

\* the state when the module has been imported and nothing is registered
Registry0 ==
    [handlers |-> [l \in {handlers_to_register[i][1] :
                            i \in DOMAIN handlers_to_register} |-> <<>>],
     timers |-> {},
     _registered_handlers |-> <<>>,
     _registered_timers |-> <<>>]

\* list.remove(x): the first occurrence of x leaves the list
ListRemove(list, x) ==
    LET i == CHOOSE k \in DOMAIN list :
                 list[k] = x /\ \A j \in 1..(k - 1) : list[j] # x
    IN  SubSeq(list, 1, i - 1) \o SubSeq(list, i + 1, Len(list))

\* the loop of _register_app_handlers from its i-th pair on
RECURSIVE register_app_handlers_from(_, _)
register_app_handlers_from(R, i) ==
    IF i > Len(handlers_to_register) THEN R
    ELSE LET handler_list == handlers_to_register[i][1]
             handler_func == handlers_to_register[i][2]
         IN  register_app_handlers_from(
                 IF ~InList(handler_func, R.handlers[handler_list])
                 THEN [R EXCEPT !.handlers[handler_list] = Append(@, handler_func),
                                !._registered_handlers =
                                    Append(@, handlers_to_register[i])]
                 ELSE R,
                 i + 1)

_register_app_handlers(R) == register_app_handlers_from(R, 1)

\* the loop of _unregister_app_handlers over a copy of the tracking list
RECURSIVE unregister_app_handlers_from(_, _, _)
unregister_app_handlers_from(R, tracked, i) ==
    IF i > Len(tracked) THEN R
    ELSE LET handler_list == tracked[i][1]
             handler_func == tracked[i][2]
         IN  unregister_app_handlers_from(
                 IF InList(handler_func, R.handlers[handler_list])
                 THEN [R EXCEPT !.handlers[handler_list] =
                                    ListRemove(@, handler_func)]
                 ELSE R,
                 tracked, i + 1)

_unregister_app_handlers(R) ==
    unregister_app_handlers_from(R, R._registered_handlers, 1)

_register_timers(R) ==
    IF "process_queue" \notin R.timers
    THEN [R EXCEPT !.timers = @ \cup {"process_queue"},
                   !._registered_timers = Append(@, "process_queue")]
    ELSE R

\* every tracked timer that is registered is unregistered
_unregister_timers(R) ==
    [R EXCEPT !.timers =
        @ \ {R._registered_timers[i] : i \in DOMAIN R._registered_timers}]

\* unregister_all without the clearing of the tracking lists
unregister_all_keep_tracking(R) ==
    _unregister_app_handlers(_unregister_timers(R))

unregister_all(R) ==
    [_unregister_app_handlers(_unregister_timers(R))
        EXCEPT !._registered_handlers = <<>>, !._registered_timers = <<>>]

register_all(R) == _register_timers(_register_app_handlers(unregister_all(R)))

\* the transport threads that can be started
Threads == 1..MaxThreads

\* connection.register() and throttle.register() have run
Init ==
    /\ registry = Registry0
    /\ _should_run = TRUE
    /\ _thread = 1
    /\ tpc = [t \in Threads |-> IF t = 1 THEN "loop" ELSE "unborn"]
    /\ waited = [t \in Threads |-> "start"]
    /\ ws_app = [t \in Threads |-> 0]
    /\ _ws = 0
    /\ sock = {}
    /\ _session_protocol_version = 0
    /\ _message_queue = <<>>
    /\ _pending_requests = <<>>
    /\ mainpc = "idle"
    /\ conn = 0
    /\ wire = <<>>
    /\ nreq = 0
    /\ handled = None
    /\ host = Host0
    /\ _pending_events = <<>>
    /\ _dirty_reasons = <<>>
    /\ _coalesced_data = <<>>
    /\ _event_count = <<>>
    /\ _new_type_map = <<>>
    /\ flush_timer = <<>>
    /\ now = 0
    /\ submitted = <<>>
    /\ budget = MaxEvents
    /\ frame_current = 1
    /\ arg = <<>>
    /\ ret = <<>>

\* Thread.is_alive()
is_alive(t) == tpc[t] \notin {"unborn", "exited"}

\* ws_thread: the test of the while loop
ws_thread_loop(t) ==
    /\ tpc[t] = "loop"
    /\ tpc' = [tpc EXCEPT ![t] = IF _should_run THEN "attempt" ELSE "exited"]
    /\ UNCHANGED <<_should_run, _thread, ws_app, _ws, sock,
                   _session_protocol_version, _message_queue, _pending_requests,
                   mainpc, conn, wire, nreq, handled, host, throttleVars,
                   callVars, registryVars, waited>>

\* a variant of ws_thread_attempt without the except clause: an exception
\* ends the thread; C16_ThreadSurvives tells it from ws_thread_attempt
ws_thread_attempt_uncaught(t) ==
    /\ tpc[t] = "attempt"
    /\ \E raised \in BOOLEAN :
         IF raised
         THEN /\ tpc' = [tpc EXCEPT ![t] = "exited"]
              /\ UNCHANGED <<conn, _ws>>
         ELSE /\ conn < MaxConn
              /\ conn' = conn + 1
              /\ _ws' = conn + 1
              /\ tpc' = [tpc EXCEPT ![t] = "created"]
    /\ UNCHANGED <<_should_run, _thread, ws_app, sock, _session_protocol_version,
                   _message_queue, _pending_requests, mainpc, wire, nreq, handled,
                   host, throttleVars,
                   callVars, registryVars, waited>>

\* ws_thread: the preferences are read and the WebSocketApp of this attempt is
\* built and stored in _ws, unless one of the two raises
ws_thread_attempt(t) ==
    /\ tpc[t] = "attempt"
    /\ \E raised \in BOOLEAN :
         IF raised
         THEN /\ tpc' = [tpc EXCEPT ![t] = "closed"]
              /\ UNCHANGED <<conn, _ws>>
         ELSE /\ conn < MaxConn
              /\ conn' = conn + 1
              /\ _ws' = conn + 1
              /\ tpc' = [tpc EXCEPT ![t] = "created"]
    /\ UNCHANGED <<_should_run, _thread, ws_app, sock, _session_protocol_version,
                   _message_queue, _pending_requests, mainpc, wire, nreq, handled,
                   host, throttleVars,
                   callVars, registryVars, waited>>

\* _ws.run_forever(): the global is read again (None raises AttributeError,
\* an app whose socket is open raises "socket is already opened"); the
\* connection attempt succeeds or fails
run_forever_connect(t) ==
    /\ tpc[t] = "created"
    /\ IF _ws = 0 \/ _ws \in sock
       THEN /\ tpc' = [tpc EXCEPT ![t] = "closed"]
            /\ UNCHANGED <<ws_app, sock>>
       ELSE \E connected \in BOOLEAN :
              IF connected
              THEN /\ sock' = sock \cup {_ws}
                   /\ ws_app' = [ws_app EXCEPT ![t] = _ws]
                   /\ tpc' = [tpc EXCEPT ![t] = "connected"]
              ELSE /\ tpc' = [tpc EXCEPT ![t] = "closed"]
                   /\ UNCHANGED <<ws_app, sock>>
    /\ UNCHANGED <<_should_run, _thread, _ws, _session_protocol_version,
                   _message_queue, _pending_requests, mainpc, conn, wire, nreq,
                   handled, host, throttleVars,
                   callVars, registryVars, waited>>

\* a variant of on_open that leaves the session version as the previous
\* connection negotiated it; C14_OpenResets tells it from on_open
on_open_keep_version(t) ==
    /\ tpc[t] = "connected"
    /\ tpc' = [tpc EXCEPT ![t] = "open"]
    /\ _message_queue' =
         Append(_message_queue,
                [type |-> "event", event |-> "connected",
                 blender_version |-> "4.0.0", addon_version |-> "1.0.0",
                 filepath |-> "(unsaved)",
                 supported_protocol_versions |-> SUPPORTED_PROTOCOL_VERSIONS])
    /\ UNCHANGED <<_should_run, _thread, ws_app, _ws, sock,
                   _session_protocol_version, _pending_requests, mainpc, conn,
                   wire, nreq, handled, host, throttleVars,
                   callVars, registryVars, waited>>

\* on_open(ws), called by run_forever once the socket has connected
on_open(t) ==
    /\ tpc[t] = "connected"
    /\ tpc' = [tpc EXCEPT ![t] = "open"]
    /\ _session_protocol_version' = 0
    /\ _message_queue' =
         Append(_message_queue,
                [type |-> "event", event |-> "connected",
                 blender_version |-> "4.0.0", addon_version |-> "1.0.0",
                 filepath |-> "(unsaved)",
                 supported_protocol_versions |-> SUPPORTED_PROTOCOL_VERSIONS])
    /\ UNCHANGED <<_should_run, _thread, ws_app, _ws, sock, _pending_requests,
                   mainpc, conn, wire, nreq, handled, host, throttleVars,
                   callVars, registryVars, waited>>

\* a variant of on_ws_message that handles the request on the transport
\* thread; C2_HandlingOnlyInTick tells it from on_ws_message
on_ws_message_direct(t) ==
    /\ tpc[t] = "open"
    /\ ws_app[t] \in sock
    /\ nreq < MaxRequests
    /\ \E i \in 1..Len(Inbound(nreq + 1)) : \E env \in Envs :
         \E data \in {Inbound(nreq + 1)[i]} :
           IF data.type = "request"
           THEN \E done \in {handle_request(data, _session_protocol_version,
                                            _message_queue, host, env)} :
                  /\ _session_protocol_version' = done.version
                  /\ _message_queue' =
                       IF done.response # <<>>
                       THEN send_to_blendmate(done.queue, done.version,
                                              done.response[1])
                       ELSE done.queue
                  /\ host' = done.host
           ELSE UNCHANGED <<_session_protocol_version, _message_queue, host>>
    /\ nreq' = nreq + 1
    /\ UNCHANGED <<_should_run, _thread, tpc, ws_app, _ws, sock, _pending_requests,
                   mainpc, conn, wire, handled, throttleVars,
                   callVars, registryVars, waited>>

\* a text that json.loads rejects
NotJson == (* "{oops" *) <<"{","o","o","p","s">>

\* the texts the counterpart sends: a JSON text is held as the value it
\* denotes, any other text as its characters
Messages(id) ==
    <<[json |-> FALSE, text |-> NotJson]>>
    \o [i \in DOMAIN Inbound(id) |-> [json |-> TRUE, value |-> Inbound(id)[i]]]

\* json.loads: the value of a JSON text, JSONDecodeError for any other text
json_loads(message) ==
    IF message.json
    THEN [raised |-> <<>>, value |-> message.value]
    ELSE [raised |-> <<"JSONDecodeError">>]

\* a variant of on_ws_message_of that answers a text it cannot parse with
\* an error response; C29_InvalidJsonDropped tells it from on_ws_message_of
on_ws_message_of_answering(t, message) ==
    /\ tpc[t] = "open"
    /\ ws_app[t] \in sock
    /\ nreq < MaxRequests
    /\ \E data \in {json_loads(message)} :
         IF data.raised # <<>>
         THEN /\ _message_queue' =
                   send_to_blendmate(_message_queue, _session_protocol_version,
                                     [type |-> "response", id |-> None,
                                      error |-> (* "Invalid JSON" *) <<"I","n","v","a","l","i","d"," ","J","S","O","N">>])
              /\ UNCHANGED _pending_requests
         ELSE /\ _pending_requests' = IF data.value.type = "request"
                                       THEN Append(_pending_requests, data.value)
                                       ELSE _pending_requests
              /\ UNCHANGED _message_queue
    /\ nreq' = nreq + 1
    /\ UNCHANGED <<_should_run, _thread, tpc, ws_app, _ws, sock,
                   _session_protocol_version, mainpc, conn, wire,
                   handled, host, throttleVars, registryVars, waited>>

\* on_ws_message(ws, message) for one text: a request is queued for the main
\* thread, any other value is ignored, JSONDecodeError is caught and logged
on_ws_message_of(t, message) ==
    /\ tpc[t] = "open"
    /\ ws_app[t] \in sock
    /\ nreq < MaxRequests
    /\ \E data \in {json_loads(message)} :
         _pending_requests' =
             IF data.raised # <<>>
             THEN _pending_requests
             ELSE IF data.value.type = "request"
                  THEN Append(_pending_requests, data.value)
                  ELSE _pending_requests
    /\ nreq' = nreq + 1
    /\ UNCHANGED <<_should_run, _thread, tpc, ws_app, _ws, sock,
                   _session_protocol_version, _message_queue, mainpc, conn, wire,
                   handled, host, throttleVars, registryVars, waited>>

on_ws_message(t) ==
    /\ \E i \in 1..Len(Messages(nreq + 1)) :
         on_ws_message_of(t, Messages(nreq + 1)[i])
    /\ UNCHANGED callVars

\* run_forever returns or raises: the connection was lost or closed (on_open
\* is called as soon as the socket has connected, before anything is read)
run_forever_close(t) ==
    /\ tpc[t] = "open"
    /\ tpc' = [tpc EXCEPT ![t] = "closed"]
    /\ sock' = sock \ {ws_app[t]}
    /\ ws_app' = [ws_app EXCEPT ![t] = 0]
    /\ UNCHANGED <<_should_run, _thread, _ws, _session_protocol_version,
                   _message_queue, _pending_requests, mainpc, conn, wire, nreq,
                   handled, host, throttleVars,
                   callVars, registryVars, waited>>

\* ws_thread: `if _should_run.is_set()` after an attempt
ws_thread_backoff_test(t) ==
    /\ tpc[t] = "closed"
    /\ tpc' = [tpc EXCEPT ![t] = IF _should_run THEN "waiting" ELSE "loop"]
    /\ waited' = [waited EXCEPT ![t] = IF _should_run THEN @ ELSE "skipped"]
    /\ UNCHANGED <<_should_run, _thread, ws_app, _ws, sock,
                   _session_protocol_version, _message_queue, _pending_requests,
                   mainpc, conn, wire, nreq, handled, host, throttleVars,
                   callVars, registryVars>>

\* Event.wait(timeout=2) returns as soon as the flag is set: at once when it
\* is set at the call
ws_thread_wait_flag(t) ==
    /\ tpc[t] = "waiting"
    /\ _should_run
    /\ tpc' = [tpc EXCEPT ![t] = "loop"]
    /\ waited' = [waited EXCEPT ![t] = "cut"]
    /\ UNCHANGED <<_should_run, _thread, ws_app, _ws, sock,
                   _session_protocol_version, _message_queue, _pending_requests,
                   mainpc, conn, wire, nreq, handled, host, throttleVars,
                   callVars, registryVars>>

\* Event.wait(timeout=2) with the flag clear for the whole 2 s
ws_thread_wait_timeout(t) ==
    /\ tpc[t] = "waiting"
    /\ ~_should_run
    /\ tpc' = [tpc EXCEPT ![t] = "loop"]
    /\ waited' = [waited EXCEPT ![t] = "full"]
    /\ UNCHANGED <<_should_run, _thread, ws_app, _ws, sock,
                   _session_protocol_version, _message_queue, _pending_requests,
                   mainpc, conn, wire, nreq, handled, host, throttleVars,
                   callVars, registryVars>>

\* ws_thread: the lines between the end of an attempt and the loop's test
ws_thread_backoff(t) ==
    \/ ws_thread_backoff_test(t)
    \/ ws_thread_wait_flag(t)
    \/ ws_thread_wait_timeout(t)

\* the delay the tick callbacks return: 0.1 s, in units of model time
tick_interval == 2

\* what a step of a tick callback returns: nothing yet, None (value <<>>,
\* the timer stops) or the delay after which the host calls it again
TickResults ==
    {[returned |-> FALSE, value |-> <<>>], [returned |-> TRUE, value |-> <<>>],
     [returned |-> TRUE, value |-> <<tick_interval>>]}

\* a variant of process_pending_requests_begin_returning that enters the loop
\* whether or not the run flag is set; C34_TickReturn tells it from
\* process_pending_requests_begin_returning
process_pending_requests_begin_returning_unguarded(result) ==
    /\ mainpc \in {"idle", "stopped"}
    /\ IF _pending_requests = <<>>
       THEN result = [returned |-> TRUE,
                      value |-> IF _should_run THEN <<tick_interval>> ELSE <<>>]
            /\ mainpc' = mainpc
       ELSE result = [returned |-> FALSE, value |-> <<>>] /\ mainpc' = "requests"
    /\ UNCHANGED <<_should_run, _thread, tpc, ws_app, _ws, sock,
                   _session_protocol_version, _message_queue, _pending_requests,
                   conn, wire, nreq, handled, host, throttleVars,
                   registryVars, waited>>

\* process_pending_requests: the run-flag test and the entry into the loop
process_pending_requests_begin_returning(result) ==
    /\ mainpc \in {"idle", "stopped"}
    /\ IF ~_should_run
       THEN result = [returned |-> TRUE, value |-> <<>>] /\ mainpc' = mainpc
       ELSE IF _pending_requests = <<>>
       THEN result = [returned |-> TRUE, value |-> <<tick_interval>>]
            /\ mainpc' = mainpc
       ELSE result = [returned |-> FALSE, value |-> <<>>] /\ mainpc' = "requests"
    /\ UNCHANGED <<_should_run, _thread, tpc, ws_app, _ws, sock,
                   _session_protocol_version, _message_queue, _pending_requests,
                   conn, wire, nreq, handled, host, throttleVars,
                   registryVars, waited>>

process_pending_requests_begin ==
    /\ \E result \in TickResults : process_pending_requests_begin_returning(result)
    /\ UNCHANGED callVars

\* process_pending_requests: one turn of the loop, the host deciding as one
\* of envs
process_pending_requests_step_in(envs) ==
    /\ mainpc = "requests"
    /\ _pending_requests # <<>>
    /\ \E env \in envs :
         \E done \in {handle_request(Head(_pending_requests),
                                     _session_protocol_version, _message_queue,
                                     host, env)} :
             /\ _session_protocol_version' = done.version
             /\ _message_queue' =
                  IF done.response # <<>>
                  THEN send_to_blendmate(done.queue, done.version, done.response[1])
                  ELSE done.queue
             /\ host' = done.host
             /\ handled' = [request |-> Head(_pending_requests),
                            version |-> _session_protocol_version,
                            after |-> done.version,
                            put |-> SubSeq(done.queue, Len(_message_queue) + 1,
                                           Len(done.queue)),
                            response |-> done.response]
    /\ _pending_requests' = Tail(_pending_requests)
    /\ UNCHANGED <<_should_run, _thread, tpc, ws_app, _ws, sock, mainpc, conn, wire,
                   nreq, throttleVars,
                   callVars, registryVars, waited>>

\* the step on a host that lets bpy.data be read
process_pending_requests_step == process_pending_requests_step_in(Envs)

\* the same step on a host that may refuse the read of bpy.data
process_pending_requests_step_any_host ==
    process_pending_requests_step_in(EnvsAnyHost)

\* process_pending_requests: the queue is empty, the callback returns
process_pending_requests_end_returning(result) ==
    /\ mainpc = "requests"
    /\ _pending_requests = <<>>
    /\ mainpc' = "idle"
    /\ result = [returned |-> TRUE, value |-> <<tick_interval>>]
    /\ UNCHANGED <<_should_run, _thread, tpc, ws_app, _ws, sock,
                   _session_protocol_version, _message_queue, _pending_requests,
                   conn, wire, nreq, handled, host, throttleVars,
                   registryVars, waited>>

process_pending_requests_end ==
    /\ \E result \in TickResults : process_pending_requests_end_returning(result)
    /\ UNCHANGED callVars

is_ws_connected == _ws # 0 /\ _ws \in sock

\* a variant of process_queue that takes the newest message first;
\* C15_Fifo tells it from process_queue
process_queue_newest_first ==
    /\ mainpc \in {"idle", "stopped"}
    /\ IF _should_run /\ is_ws_connected /\ _message_queue # <<>>
       THEN /\ wire' = wire \o [i \in 1..Len(_message_queue) |->
                                  [msg |-> _message_queue[Len(_message_queue) + 1 - i],
                                   conn |-> _ws]]
            /\ _message_queue' = <<>>
       ELSE UNCHANGED <<wire, _message_queue>>
    /\ UNCHANGED <<_should_run, _thread, tpc, ws_app, _ws, sock,
                   _session_protocol_version, _pending_requests, mainpc, conn, nreq,
                   handled, host, throttleVars,
                   callVars, registryVars, waited>>

\* process_queue: messages 1..failed-1 are sent; the send of message `failed`
\* raises and ends the loop (failed past the end: every send succeeds)
\* process_queue() returning result: the send of the message numbered failed
\* raises (none does when failed is past the end)
process_queue_returning(result) ==
    /\ mainpc \in {"idle", "stopped"}
    /\ IF ~_should_run
       THEN /\ result = [returned |-> TRUE, value |-> <<>>]
            /\ UNCHANGED <<wire, _message_queue>>
       ELSE /\ result = [returned |-> TRUE, value |-> <<tick_interval>>]
            /\ IF is_ws_connected /\ _message_queue # <<>>
               THEN \E failed \in 1..(Len(_message_queue) + 1) :
                      /\ wire' = wire \o [i \in 1..(failed - 1) |->
                                            [msg |-> _message_queue[i], conn |-> _ws]]
                      /\ _message_queue' = SubSeq(_message_queue, failed + 1,
                                                  Len(_message_queue))
               ELSE UNCHANGED <<wire, _message_queue>>
    /\ UNCHANGED <<_should_run, _thread, tpc, ws_app, _ws, sock,
                   _session_protocol_version, _pending_requests, mainpc, conn, nreq,
                   handled, host, throttleVars, registryVars, waited>>

process_queue ==
    /\ \E result \in TickResults : process_queue_returning(result)
    /\ UNCHANGED callVars

\* the frames the scene can be at
Frames == 1..2

\* when the bucket of a kind was created: the time of the first submission
\* since the kind's last flush, t for a submission that creates the bucket
BucketCreated(subs, kind, t) ==
    IF kind \in DOMAIN subs THEN subs[kind][1].created ELSE t

\* the scene moves to another frame and the host calls
\* handlers.on_frame_change(scene)
on_frame_change ==
    /\ mainpc = "idle"
    /\ budget > 0
    /\ \E frame \in Frames \ {frame_current} :
         LET reason == "frame_" \o ToString(frame)
             event_data ==
                 IF is_protocol_v1(_session_protocol_version)
                 THEN event_timeline_frame_changed(frame)
                 ELSE [type |-> "event", event |-> "frame_change", frame |-> frame]
             new_type == IF is_protocol_v1(_session_protocol_version)
                         THEN "event.timeline.frame_changed" ELSE ""
         IN  \E T \in {throttle_event(ThrottleState, "frame_change", event_data,
                                      reason, new_type, now)} :
             /\ _pending_events' = T._pending_events
             /\ _dirty_reasons' = T._dirty_reasons
             /\ _coalesced_data' = T._coalesced_data
             /\ _event_count' = T._event_count
             /\ _new_type_map' = T._new_type_map
             /\ submitted' = ("frame_change" :>
                                Append(Get(submitted, "frame_change", <<>>),
                                       [data |-> event_data, reason |-> reason,
                                        created |-> BucketCreated(submitted, "frame_change", now)]))
                             @@ submitted
             /\ frame_current' = frame
    /\ flush_timer' = _register_flush_timer(flush_timer, now)
    /\ budget' = budget - 1
    /\ UNCHANGED <<bridgeVars, now, callVars, registryVars>>

\* 50 ms pass
Tick ==
    /\ now < MaxTime
    /\ now' = now + 1
    /\ UNCHANGED <<bridgeVars, _pending_events, _dirty_reasons, _coalesced_data,
                   _event_count, _new_type_map, flush_timer, submitted, budget,
                   frame_current, callVars, registryVars>>

\* the timer callback throttle._flush_pending_events, once it is due
_flush_pending_events ==
    /\ mainpc = "idle"
    /\ flush_timer # <<>>
    /\ now >= flush_timer[1]
    /\ \E done \in {flush_pending_events(ThrottleState, _session_protocol_version,
                                          _message_queue, now)} :
           /\ _pending_events' = done.T._pending_events
           /\ _dirty_reasons' = done.T._dirty_reasons
           /\ _coalesced_data' = done.T._coalesced_data
           /\ _event_count' = done.T._event_count
           /\ _new_type_map' = done.T._new_type_map
           /\ _message_queue' = done.queue
           /\ flush_timer' = done.timer
           /\ submitted' = [k \in {done.T._pending_events[i].key :
                                     i \in 1..Len(done.T._pending_events)} |->
                              submitted[k]]
    /\ UNCHANGED <<_should_run, _thread, tpc, ws_app, _ws, sock,
                   _session_protocol_version, _pending_requests, mainpc, conn, wire,
                   nreq, handled, host, now, budget, frame_current, callVars, registryVars, waited>>

\* connection.register(): an old thread that is still referenced and alive is
\* reused, otherwise a new one is started
register ==
    /\ mainpc \in {"idle", "stopped"}
    /\ mainpc' = "idle"
    /\ _should_run' = TRUE
    /\ IF _thread # 0 /\ is_alive(_thread)
       THEN UNCHANGED <<_thread, tpc>>
       ELSE \E t \in Threads :
              /\ tpc[t] = "unborn"
              /\ \A u \in Threads : u < t => tpc[u] # "unborn"
              /\ _thread' = t
              /\ tpc' = [tpc EXCEPT ![t] = "loop"]
    /\ UNCHANGED <<ws_app, _ws, sock, _session_protocol_version, _message_queue,
                   _pending_requests, conn, wire, nreq, handled, host,
                   throttleVars,
                   callVars, registryVars, waited>>

\* the add-on's unregister(), as far as connection.unregister(): the modules
\* are unregistered in reverse order and connection comes before throttle.
\* The run flag is cleared and the socket of _ws is closed
unregister_connection ==
    /\ mainpc = "idle"
    /\ mainpc' = "joining"
    /\ _should_run' = FALSE
    /\ sock' = sock \ {_ws}
    /\ UNCHANGED <<_thread, tpc, ws_app, _ws, _session_protocol_version,
                   _message_queue, _pending_requests, conn, wire, nreq, handled,
                   host, throttleVars,
                   callVars, registryVars, waited>>

\* a variant of unregister_join that also puts the session back to legacy;
\* C26_VersionFrame tells it from unregister_join
unregister_join_resets_version ==
    /\ mainpc = "joining"
    /\ mainpc' = "unregistering"
    /\ _thread' = 0
    /\ _ws' = 0
    /\ _session_protocol_version' = 0
    /\ UNCHANGED <<_should_run, tpc, ws_app, sock, _message_queue,
                   _pending_requests, conn, wire, nreq, handled, host,
                   throttleVars, callVars, registryVars, waited>>

\* connection.unregister(), continued: _thread.join(timeout=0.5) returns (the
\* thread has exited or the timeout has passed) and the globals are dropped
unregister_join ==
    /\ mainpc = "joining"
    /\ mainpc' = "unregistering"
    /\ _thread' = 0
    /\ _ws' = 0
    /\ UNCHANGED <<_should_run, tpc, ws_app, sock, _session_protocol_version,
                   _message_queue, _pending_requests, conn, wire, nreq, handled,
                   host, throttleVars,
                   callVars, registryVars, waited>>

\* the add-on's unregister(), continued: throttle.unregister()
unregister_throttle ==
    /\ mainpc = "unregistering"
    /\ mainpc' = "stopped"
    /\ \E done \in {flush_immediate(ThrottleState, _session_protocol_version,
                                     _message_queue)} :
           /\ _pending_events' = done.T._pending_events
           /\ _dirty_reasons' = done.T._dirty_reasons
           /\ _coalesced_data' = done.T._coalesced_data
           /\ _event_count' = done.T._event_count
           /\ _new_type_map' = done.T._new_type_map
           /\ _message_queue' = done.queue
    /\ flush_timer' = <<>>
    /\ submitted' = <<>>
    /\ UNCHANGED <<_should_run, _thread, tpc, ws_app, _ws, sock,
                   _session_protocol_version, _pending_requests, conn, wire, nreq,
                   handled, host, now, budget, frame_current, callVars, registryVars, waited>>

Next ==
    \/ \E t \in Threads : ws_thread_loop(t)
    \/ \E t \in Threads : ws_thread_attempt(t)
    \/ \E t \in Threads : run_forever_connect(t)
    \/ \E t \in Threads : on_open(t)
    \/ \E t \in Threads : on_ws_message(t)
    \/ \E t \in Threads : run_forever_close(t)
    \/ \E t \in Threads : ws_thread_backoff(t)
    \/ process_pending_requests_begin
    \/ process_pending_requests_step
    \/ process_pending_requests_end
    \/ process_queue
    \/ on_frame_change
    \/ unregister_connection
    \/ unregister_join
    \/ unregister_throttle

Spec == Init /\ [][Next]_vars

(***************************************************************************)
(* Properties of the bridge (specification Spec).                          *)
(***************************************************************************)
\* the legacy-framed success reply to a protocol.upgrade request
IsUpgradeAck(m) ==
    /\ ~IsEnvelope(m)
    /\ Get(m, "type", "") = "response"
    /\ Get(m, "action", <<>>) = (* "protocol.upgrade" *) <<"p","r","o","t","o","c","o","l",".","u","p","g","r","a","d","e">>
    /\ "ok" \in DOMAIN m

\* the envelope-framed confirmation of an upgrade
IsConfirmation(m) == IsEnvelope(m) /\ m.type = "event.scene.connected"

\* the acknowledgments transmitted on connection c among the first n messages
AcksSent(n, c) ==
    Cardinality({j \in 1..n : wire[j].conn = c /\ IsUpgradeAck(wire[j].msg)})

\* the confirmations transmitted on connection c among the first n messages
ConfirmationsSent(n, c) ==
    Cardinality({j \in 1..n : wire[j].conn = c /\ IsConfirmation(wire[j].msg)})

\* C1: whenever an event.scene.connected confirmation is on the wire, the
\* acknowledgment of its upgrade was transmitted before it on the same
\* connection: up to every confirmation, a connection has carried at least
\* as many acknowledgments before it as confirmations.
C1_AckBeforeConfirmation ==
    \A i \in 1..Len(wire) :
        IsConfirmation(wire[i].msg) =>
            AcksSent(i - 1, wire[i].conn) >= ConfirmationsSent(i, wire[i].conn)

\* C2: a request is handled (the host graph, the record of the last handled
\* request, the session version or the outbound queue changes hands to
\* handle_request) only by a step of process_pending_requests; the step of
\* on_ws_message, which consumes an inbound message, only appends the parsed
\* request to the inbound queue or drops the message.
C2_HandlingOnlyInTick ==
    [][/\ (host' # host \/ handled' # handled)
            => (mainpc = "requests" /\ _pending_requests # <<>>
                /\ _pending_requests' = Tail(_pending_requests))
       /\ (nreq' # nreq)
            => /\ host' = host
               /\ handled' = handled
               /\ _session_protocol_version' = _session_protocol_version
               /\ _message_queue' = _message_queue
               /\ mainpc' = mainpc
               /\ \/ _pending_requests' = _pending_requests
                  \/ /\ Len(_pending_requests') = Len(_pending_requests) + 1
                     /\ SubSeq(_pending_requests', 1, Len(_pending_requests))
                          = _pending_requests]_vars

\* an operator.call received on the transport thread has been handled on the
\* main thread and has run its operator while the connection is still open
C2_Witness ==
    /\ nreq = MaxRequests
    /\ tpc[1] = "open"
    /\ handled # None
    /\ host.ops # <<>>
    /\ mainpc = "requests"

\* C3: once the add-on's unregister has torn the connection down (the run
\* flag is clear, so the socket is closed and process_queue drains nothing),
\* no throttle bucket is pending: every bucket was flushed before.
C3_FlushedBeforeTeardown == ~_should_run => _pending_events = <<>>

\* C6: a protocol.upgrade naming the supported version that is already the
\* session's version leaves the session version as it was and is answered
\* with a success acknowledgment carrying that version.
C6_UpgradeIdempotent ==
    (/\ handled # None
     /\ handled.request.action = (* "protocol.upgrade" *) <<"p","r","o","t","o","c","o","l",".","u","p","g","r","a","d","e">>
     /\ "version" \in DOMAIN handled.request.params
     /\ InList(handled.request.params.version, SUPPORTED_PROTOCOL_VERSIONS)
     /\ handled.request.params.version = handled.version)
    => /\ handled.after = handled.version
       /\ handled.response = <<>>
       /\ handled.put # <<>>
       /\ IsUpgradeAck(handled.put[1])
       /\ handled.put[1].ok
       /\ "error" \notin DOMAIN handled.put[1]
       /\ handled.put[1].id = handled.request.id
       /\ handled.put[1].data = [version |-> handled.version]

\* a second upgrade to version 1 has been handled while version 1 was active
C6_Witness ==
    /\ handled # None
    /\ handled.request.action = (* "protocol.upgrade" *) <<"p","r","o","t","o","c","o","l",".","u","p","g","r","a","d","e">>
    /\ handled.version = 1
    /\ "version" \in DOMAIN handled.request.params
    /\ handled.request.params.version = 1
    /\ handled.after = 1

(***************************************************************************)
(* One request on the main thread (specification SpecCmd): the bridge is   *)
(* connected, process_pending_requests has found one request in the        *)
(* inbound queue, the session is legacy or upgraded, and the host may      *)
(* refuse the read of bpy.data while the request is handled.               *)
(***************************************************************************)
TargetTexts ==
    <<(* "objects['Cube']" *) <<"o","b","j","e","c","t","s","[","'","C","u","b","e","'","]">>, (* "objects['Nope']" *) <<"o","b","j","e","c","t","s","[","'","N","o","p","e","'","]">>, (* "window_managers['WinMan']" *) <<"w","i","n","d","o","w","_","m","a","n","a","g","e","r","s","[","'","W","i","n","M","a","n","'","]">>,
      (* "filepath" *) <<"f","i","l","e","p","a","t","h">>, (* "['Cube']" *) <<"[","'","C","u","b","e","'","]">>, (* "objects[" *) <<"o","b","j","e","c","t","s","[">>>>

PathTexts == <<(* "hide_render" *) <<"h","i","d","e","_","r","e","n","d","e","r">>, (* "show_name" *) <<"s","h","o","w","_","n","a","m","e">>, (* "location[0]" *) <<"l","o","c","a","t","i","o","n","[","0","]">>, (* "nope" *) <<"n","o","p","e">>>>

Item(p) == [path |-> PathTexts[p], value |-> 1]

\* the property lists of the batches: by index into PathTexts
Batches ==
    <<<<1>>, <<4>>, <<1, 4>>, <<4, 1>>, <<1, 4, 2>>, <<1, 2, 3, 4>>,
      <<4, 3, 4, 2>>>>

GetRequests ==
    [t \in 1..Len(TargetTexts) |->
        CommandRequest(1, (* "property.get" *) <<"p","r","o","p","e","r","t","y",".","g","e","t">>, TargetTexts[t],
                       [path |-> PathTexts[1]])]
    \o [p \in 1..Len(PathTexts) |->
          CommandRequest(1, (* "property.get" *) <<"p","r","o","p","e","r","t","y",".","g","e","t">>, TargetTexts[1],
                         [path |-> PathTexts[p]])]
    \o <<CommandRequest(1, (* "property.get" *) <<"p","r","o","p","e","r","t","y",".","g","e","t">>, TargetTexts[1], <<>>)>>

SetRequests ==
    [t \in 1..Len(TargetTexts) |->
        CommandRequest(1, (* "property.set" *) <<"p","r","o","p","e","r","t","y",".","s","e","t">>, TargetTexts[t],
                       [path |-> PathTexts[1], value |-> 1])]
    \o [p \in 1..Len(PathTexts) |->
          CommandRequest(1, (* "property.set" *) <<"p","r","o","p","e","r","t","y",".","s","e","t">>, TargetTexts[1],
                         [path |-> PathTexts[p], value |-> 2])]
    \o <<CommandRequest(1, (* "property.set" *) <<"p","r","o","p","e","r","t","y",".","s","e","t">>, (* "objects['Cube'].show_name" *) <<"o","b","j","e","c","t","s","[","'","C","u","b","e","'","]",".","s","h","o","w","_","n","a","m","e">>,
                        [value |-> 1]),
         CommandRequest(1, (* "property.set" *) <<"p","r","o","p","e","r","t","y",".","s","e","t">>, (* "window_managers['WinMan'].is_dirty" *) <<"w","i","n","d","o","w","_","m","a","n","a","g","e","r","s","[","'","W","i","n","M","a","n","'","]",".","i","s","_","d","i","r","t","y">>,
                        [value |-> 1]),
         CommandRequest(1, (* "property.set" *) <<"p","r","o","p","e","r","t","y",".","s","e","t">>, TargetTexts[1],
                        [path |-> PathTexts[1]])>>

SetBatchRequests ==
    [n \in 1..(3 * Len(Batches)) |->
        CommandRequest(1, (* "property.set_batch" *) <<"p","r","o","p","e","r","t","y",".","s","e","t","_","b","a","t","c","h">>,
                       TargetTexts[((n - 1) % 3) + 1],
                       [properties |->
                          [i \in 1..Len(Batches[((n - 1) \div 3) + 1]) |->
                             Item(Batches[((n - 1) \div 3) + 1][i])]])]
    \o <<CommandRequest(1, (* "property.set_batch" *) <<"p","r","o","p","e","r","t","y",".","s","e","t","_","b","a","t","c","h">>, TargetTexts[1], <<>>),
         CommandRequest(1, (* "property.set_batch" *) <<"p","r","o","p","e","r","t","y",".","s","e","t","_","b","a","t","c","h">>, TargetTexts[1],
                        [properties |-> <<Item(1), [path |-> PathTexts[2]],
                                          Item(4)>>])>>

OperatorTexts ==
    <<(* "object.duplicate" *) <<"o","b","j","e","c","t",".","d","u","p","l","i","c","a","t","e">>, (* "wm.quit_blender" *) <<"w","m",".","q","u","i","t","_","b","l","e","n","d","e","r">>, (* "wm.save_mainfile" *) <<"w","m",".","s","a","v","e","_","m","a","i","n","f","i","l","e">>,
      (* "render.render" *) <<"r","e","n","d","e","r",".","r","e","n","d","e","r">>, (* "preferences.addon_install" *) <<"p","r","e","f","e","r","e","n","c","e","s",".","a","d","d","o","n","_","i","n","s","t","a","l","l">>, (* "script.python_file_run" *) <<"s","c","r","i","p","t",".","p","y","t","h","o","n","_","f","i","l","e","_","r","u","n">>,
      (* "object.nope" *) <<"o","b","j","e","c","t",".","n","o","p","e">>, (* "nodes.duplicate" *) <<"n","o","d","e","s",".","d","u","p","l","i","c","a","t","e">>, (* "duplicate" *) <<"d","u","p","l","i","c","a","t","e">>, (* "bpy.ops.object.duplicate" *) <<"b","p","y",".","o","p","s",".","o","b","j","e","c","t",".","d","u","p","l","i","c","a","t","e">>>>

OperatorRequests ==
    [o \in 1..Len(OperatorTexts) |->
        CommandRequest(1, (* "operator.call" *) <<"o","p","e","r","a","t","o","r",".","c","a","l","l">>, OperatorTexts[o], <<>>)]

OtherRequests ==
    <<UpgradeRequest(1, 1), UpgradeRequest(1, 2), UpgradeRequest(1, 0),
      [type |-> "request", id |-> 1, action |-> (* "protocol.upgrade" *) <<"p","r","o","t","o","c","o","l",".","u","p","g","r","a","d","e">>,
       params |-> <<>>],
      [type |-> "request", id |-> 1, action |-> (* "protocol.upgrade" *) <<"p","r","o","t","o","c","o","l",".","u","p","g","r","a","d","e">>,
       params |-> None],
      CommandRequest(1, (* "ping" *) <<"p","i","n","g">>, <<>>, <<>>),
      CommandRequest(1, (* "scene.frobnicate" *) <<"s","c","e","n","e",".","f","r","o","b","n","i","c","a","t","e">>, <<>>, <<>>)>>

\* the requests of SpecCmd
CmdRequests ==
    GetRequests \o SetRequests \o SetBatchRequests \o OperatorRequests
    \o OtherRequests

InitCmd ==
    /\ registry = Registry0
    /\ _should_run = TRUE
    /\ _thread = 1
    /\ tpc = [t \in Threads |-> IF t = 1 THEN "open" ELSE "unborn"]
    /\ waited = [t \in Threads |-> "start"]
    /\ ws_app = [t \in Threads |-> IF t = 1 THEN 1 ELSE 0]
    /\ _ws = 1
    /\ sock = {1}
    /\ _session_protocol_version \in {0, 1}
    /\ _message_queue = <<>>
    /\ \E r \in 1..Len(CmdRequests) : _pending_requests = <<CmdRequests[r]>>
    /\ mainpc = "requests"
    /\ conn = 1
    /\ wire = <<>>
    /\ nreq = 1
    /\ handled = None
    /\ host = Host0
    /\ _pending_events = <<>>
    /\ _dirty_reasons = <<>>
    /\ _coalesced_data = <<>>
    /\ _event_count = <<>>
    /\ _new_type_map = <<>>
    /\ flush_timer = <<>>
    /\ now = 0
    /\ submitted = <<>>
    /\ budget = 0
    /\ frame_current = 1
    /\ arg = <<>>
    /\ ret = <<>>

NextCmd ==
    \/ process_pending_requests_step_any_host
    \/ process_pending_requests_end
    \/ process_queue

SpecCmd == InitCmd /\ [][NextCmd]_vars

(***************************************************************************)
(* Properties of one request (specification SpecCmd).                      *)
(***************************************************************************)
\* the reply handle_request returned for the handled request
Reply == handled.response[1]

Payload(r) == IF IsEnvelope(r) THEN r.body ELSE r

IsError(r) == IF IsEnvelope(r) THEN ~r.body.ok ELSE "error" \in DOMAIN r

IsSuccess(r) ==
    IF IsEnvelope(r) THEN r.body.ok /\ "error" \notin DOMAIN r.body
    ELSE Get(r, "ok", FALSE) /\ "error" \notin DOMAIN r

ErrorCodeOf(r) ==
    IF IsEnvelope(r) THEN r.body.error.code ELSE Get(r, "error_code", "")

\* field k of the reply, in its payload or in the payload's data: <<>> when
\* the reply has no such field
ReplyField(r, k) ==
    LET p == Payload(r)
    IN  IF k \in DOMAIN p THEN <<p[k]>>
        ELSE IF "data" \in DOMAIN p /\ k \in DOMAIN p.data THEN <<p.data[k]>>
        ELSE <<>>

Handled(action) == handled # None /\ handled.request.action = action

\* C5: a protocol.upgrade naming an unsupported version leaves the session
\* version as it was, enqueues no confirmation, and is answered with error
\* code UNSUPPORTED_VERSION in a reply that lists the supported versions.
C5_UnsupportedVersion ==
    (/\ Handled((* "protocol.upgrade" *) <<"p","r","o","t","o","c","o","l",".","u","p","g","r","a","d","e">>)
     /\ "version" \in DOMAIN handled.request.params
     /\ ~InList(handled.request.params.version, SUPPORTED_PROTOCOL_VERSIONS))
    => /\ handled.after = handled.version
       /\ handled.put = <<>>
       /\ handled.response # <<>>
       /\ IsError(Reply)
       /\ ErrorCodeOf(Reply) = "UNSUPPORTED_VERSION"
       /\ ReplyField(Reply, "supported_versions") = <<SUPPORTED_PROTOCOL_VERSIONS>>

\* C7: operator.call runs a host operator only when the target names a
\* whitelisted category and is not blacklisted, and then it runs the named
\* operator; a blacklisted target and a target outside every whitelisted
\* category are answered with an error and leave the host as it was.
C7_OperatorGate ==
    Handled((* "operator.call" *) <<"o","p","e","r","a","t","o","r",".","c","a","l","l">>) =>
        LET target == handled.request.target
            parts == Split(target, ".")
            allowed == /\ Len(parts) = 2
                       /\ parts[1] \in SAFE_CATEGORIES
                       /\ target \notin BLOCKED_OPERATORS
        IN  /\ host.ops # <<>> => (allowed /\ host.ops = <<target>>)
            /\ ~allowed => /\ handled.response # <<>>
                           /\ IsError(Reply)
                           /\ host = Host0

\* the blacklisted operator wm.quit_blender, of the whitelisted category wm,
\* was called and rejected
C7_Witness ==
    /\ Handled((* "operator.call" *) <<"o","p","e","r","a","t","o","r",".","c","a","l","l">>)
    /\ handled.request.target = (* "wm.quit_blender" *) <<"w","m",".","q","u","i","t","_","b","l","e","n","d","e","r">>
    /\ handled.request.target \in BLOCKED_OPERATORS
    /\ (* "wm" *) <<"w","m">> \in SAFE_CATEGORIES
    /\ IsError(Reply)
    /\ host.ops = <<>>

\* C8: the reply to an operator.call naming a blacklisted operator is an
\* error carrying the code PERMISSION_DENIED.
C8_BlockedIsPermissionDenied ==
    (/\ Handled((* "operator.call" *) <<"o","p","e","r","a","t","o","r",".","c","a","l","l">>)
     /\ handled.request.target \in BLOCKED_OPERATORS)
    => /\ handled.response # <<>>
       /\ IsError(Reply)
       /\ ErrorCodeOf(Reply) = "PERMISSION_DENIED"

\* the items of the handled property.set_batch
BatchItems == handled.request.params.properties

\* item i of the batch cannot be written: on the host before the request,
\* set_property raises for it
BatchItemFails(i) ==
    ~set_property(Host0.data, handled.request.target, BatchItems[i].path,
                  BatchItems[i].value).ok

\* item i of the batch is in force on the host after the request
BatchItemApplied(i) ==
    LET got == get_property(host.data, handled.request.target, BatchItems[i].path)
    IN  got.ok /\ got.val.v = BatchItems[i].value

\* C9: a property.set_batch in which some items fail is answered with a
\* success whose count is the number of items written and which carries one
\* warning per failed item, naming its path; every item that can be written
\* is in force afterwards.
C9_BatchPartialFailure ==
    (/\ Handled((* "property.set_batch" *) <<"p","r","o","p","e","r","t","y",".","s","e","t","_","b","a","t","c","h">>)
     /\ "properties" \in DOMAIN handled.request.params
     /\ \A i \in 1..Len(BatchItems) : DOMAIN BatchItems[i] = {"path", "value"}
     /\ \E i \in 1..Len(BatchItems) : BatchItemFails(i))
    => LET failed == {i \in 1..Len(BatchItems) : BatchItemFails(i)}
           warnings == ReplyField(Reply, "warnings")
       IN  /\ handled.response # <<>>
           /\ IsSuccess(Reply)
           /\ ReplyField(Reply, "count")
                = <<Len(BatchItems) - Cardinality(failed)>>
           /\ warnings # <<>>
           /\ Len(warnings[1]) = Cardinality(failed)
           /\ \A i \in failed :
                \E w \in 1..Len(warnings[1]) :
                    /\ Len(warnings[1][w]) >= Len(BatchItems[i].path)
                    /\ SubSeq(warnings[1][w], 1, Len(BatchItems[i].path))
                         = BatchItems[i].path
           /\ \A i \in (1..Len(BatchItems)) \ failed : BatchItemApplied(i)

\* the first segment of target is not an attribute named in ALLOWED_ROOTS
RootNotWhitelisted(target) ==
    LET segments == tokenize_path(target)
    IN  /\ segments.ok
        /\ segments.val # <<>>
        /\ ~(segments.val[1].type = "attr"
             /\ segments.val[1].value \in ALLOWED_ROOTS)

\* C10: a property.get, property.set or property.set_batch whose target does
\* not start with a whitelisted root is answered with an error, and the host
\* is as it was before the request: nothing was read from or written to it.
C10_RootGate ==
    (/\ handled # None
     /\ handled.request.action
          \in {(* "property.get" *) <<"p","r","o","p","e","r","t","y",".","g","e","t">>, (* "property.set" *) <<"p","r","o","p","e","r","t","y",".","s","e","t">>, (* "property.set_batch" *) <<"p","r","o","p","e","r","t","y",".","s","e","t","_","b","a","t","c","h">>}
     /\ RootNotWhitelisted(handled.request.target))
    => /\ handled.response # <<>>
       /\ IsError(Reply)
       /\ host = Host0

(***************************************************************************)
(* The throttle with its clock (specification SpecThrottle): the bridge is *)
(* connected, legacy or upgraded, with at most an upgrade request waiting; *)
(* the host reports frame changes and depsgraph updates, time passes, and  *)
(* the flush timer fires.                                                  *)
(***************************************************************************)
\* the events the host reports in a behaviour of SpecThrottle
MaxSubmissions == 3

\* what a depsgraph update can report: the objects updated and, of them,
\* those whose geometry was updated
DepsgraphUpdates ==
    {[changed_objects |-> {"Cube"}, geometry_changed |-> {}],
     [changed_objects |-> {"Lamp"}, geometry_changed |-> {"Lamp"}],
     [changed_objects |-> {"Cube", "Lamp"}, geometry_changed |-> {"Cube"}]}

\* handlers.on_depsgraph_update(scene, depsgraph) for a depsgraph that reports
\* objects, with no active node in a geometry-nodes editor
on_depsgraph_update ==
    /\ mainpc = "idle"
    /\ budget > 0
    /\ \E update \in DepsgraphUpdates :
         LET event_data ==
                 IF is_protocol_v1(_session_protocol_version)
                 THEN event_depsgraph_updated(update.changed_objects,
                                              update.geometry_changed, "user")
                 ELSE [type |-> "event", event |-> "depsgraph_update",
                       changed_objects |-> update.changed_objects,
                       geometry_changed |-> update.geometry_changed]
             new_type == IF is_protocol_v1(_session_protocol_version)
                         THEN "event.depsgraph.updated" ELSE ""
         IN  \E T \in {throttle_event(ThrottleState, "depsgraph_update",
                                      event_data, "depsgraph_changed", new_type,
                                      now)} :
             /\ _pending_events' = T._pending_events
             /\ _dirty_reasons' = T._dirty_reasons
             /\ _coalesced_data' = T._coalesced_data
             /\ _event_count' = T._event_count
             /\ _new_type_map' = T._new_type_map
             /\ submitted' = ("depsgraph_update" :>
                                Append(Get(submitted, "depsgraph_update", <<>>),
                                       [data |-> event_data,
                                        reason |-> "depsgraph_changed",
                                        created |-> BucketCreated(submitted, "depsgraph_update", now)]))
                             @@ submitted
    /\ flush_timer' = _register_flush_timer(flush_timer, now)
    /\ budget' = budget - 1
    /\ UNCHANGED <<bridgeVars, now, frame_current, callVars, registryVars>>

InitThrottle ==
    /\ registry = Registry0
    /\ _should_run = TRUE
    /\ _thread = 1
    /\ tpc = [t \in Threads |-> IF t = 1 THEN "open" ELSE "unborn"]
    /\ waited = [t \in Threads |-> "start"]
    /\ ws_app = [t \in Threads |-> IF t = 1 THEN 1 ELSE 0]
    /\ _ws = 1
    /\ sock = {1}
    /\ _session_protocol_version \in {0, 1}
    /\ _message_queue = <<>>
    /\ \E upgrade \in BOOLEAN :
         _pending_requests = IF upgrade THEN <<UpgradeRequest(1, 1)>> ELSE <<>>
    /\ mainpc = "idle"
    /\ conn = 1
    /\ wire = <<>>
    /\ nreq = MaxRequests
    /\ handled = None
    /\ host = Host0
    /\ _pending_events = <<>>
    /\ _dirty_reasons = <<>>
    /\ _coalesced_data = <<>>
    /\ _event_count = <<>>
    /\ _new_type_map = <<>>
    /\ flush_timer = <<>>
    /\ now = 0
    /\ submitted = <<>>
    /\ budget = MaxSubmissions
    /\ frame_current = 1
    /\ arg = <<>>
    /\ ret = <<>>

NextThrottle ==
    \/ on_frame_change
    \/ on_depsgraph_update
    \/ Tick
    \/ _flush_pending_events
    \/ process_pending_requests_begin
    \/ process_pending_requests_step
    \/ process_pending_requests_end
    \/ \E t \in Threads : run_forever_close(t)
    \/ \E t \in Threads : ws_thread_backoff(t)
    \/ \E t \in Threads : ws_thread_loop(t)
    \/ \E t \in Threads : ws_thread_attempt(t)
    \/ \E t \in Threads : run_forever_connect(t)
    \/ \E t \in Threads : on_open(t)
    \/ unregister_connection
    \/ unregister_join
    \/ unregister_throttle

SpecThrottle == InitThrottle /\ [][NextThrottle]_vars

(***************************************************************************)
(* Properties of the throttle (specification SpecThrottle).                *)
(***************************************************************************)
PendingKinds(pending) == {pending[i].key : i \in 1..Len(pending)}

\* the event a flush built, whatever the framing the outbound path gave it
FlushPayload(m) ==
    IF IsEnvelope(m)
    THEN IF "_legacy" \in DOMAIN m.body THEN m.body._legacy ELSE m.body
    ELSE m

\* message m is the one message of the submissions subs of a kind
Coalesces(m, subs) ==
    LET p == FlushPayload(m)
        N == Len(subs)
        last == subs[N].data
    IN  /\ \A f \in (DOMAIN last) \ CoalescedFields :
             f \in DOMAIN p /\ p[f] = last[f]
        /\ DOMAIN p \subseteq
             (DOMAIN last \cup CoalescedFields
              \cup {"batch_id", "batch_size", "reasons"})
        /\ \A f \in CoalescedFields :
             Get(p, f, {}) = UNION {Get(subs[i].data, f, {}) : i \in 1..N}
        /\ "reasons" \in DOMAIN p
        /\ p.reasons = {subs[i].reason : i \in 1..N}
        /\ ("batch_size" \in DOMAIN p) <=> (N > 1)
        /\ ("batch_id" \in DOMAIN p) <=> (N > 1)
        /\ N > 1 => p.batch_size = N

\* C4: a step that flushes kinds (by the timer or by flush_immediate) puts
\* exactly one message per flushed kind on the outbound queue, in the order
\* of the buckets; the message of a kind submitted N times carries the
\* scalar fields of the last submission, for each array field the union of
\* that field over the N submissions, the union of the reasons, and the
\* batch fields, with batch_size N, exactly when N > 1.
C4_Coalescing ==
    [][LET gone == PendingKinds(_pending_events)
                   \ PendingKinds(_pending_events')
           flushed == SelectEntries(_pending_events, gone)
           new == SubSeq(_message_queue', Len(_message_queue) + 1,
                         Len(_message_queue'))
       IN  gone # {} =>
             /\ Len(_message_queue') = Len(_message_queue) + Len(flushed)
             /\ SubSeq(_message_queue', 1, Len(_message_queue)) = _message_queue
             /\ \A i \in 1..Len(flushed) :
                  /\ flushed[i].key \in DOMAIN submitted
                  /\ Coalesces(new[i], submitted[flushed[i].key])]_vars

\* a flushed message of three submissions whose arrays were merged is on the
\* outbound queue
C4_Witness ==
    \E i \in 1..Len(_message_queue) :
        LET p == FlushPayload(_message_queue[i])
        IN  /\ "batch_size" \in DOMAIN p
            /\ p.batch_size = 3
            /\ \E f \in CoalescedFields \cap DOMAIN p : Cardinality(p[f]) = 2

(***************************************************************************)
(* SpecPath: tokenize_path applied to paths put together from pieces       *)
(***************************************************************************)
MaxPieces == 5

\* the pieces a path is put together from: the text, what the text is (an
\* attribute name, a bracketed key or index, a separator, or text outside
\* the grammar) and the segment it stands for
PathPieces ==
    <<[text |-> (* "objects" *) <<"o","b","j","e","c","t","s">>, is |-> "attr",
       seg |-> <<[type |-> "attr", value |-> (* "objects" *) <<"o","b","j","e","c","t","s">>]>>],
      [text |-> (* ".modifiers" *) <<".","m","o","d","i","f","i","e","r","s">>, is |-> "dotted",
       seg |-> <<[type |-> "attr", value |-> (* "modifiers" *) <<"m","o","d","i","f","i","e","r","s">>]>>],
      [text |-> (* ".name" *) <<".","n","a","m","e">>, is |-> "dotted",
       seg |-> <<[type |-> "attr", value |-> (* "name" *) <<"n","a","m","e">>]>>],
      [text |-> (* "['Cube']" *) <<"[","'","C","u","b","e","'","]">>, is |-> "bracket",
       seg |-> <<[type |-> "key", value |-> (* "Cube" *) <<"C","u","b","e">>]>>],
      [text |-> (* "[\"Cu'be\"]" *) <<"[","\"","C","u","'","b","e","\"","]">>, is |-> "bracket",
       seg |-> <<[type |-> "key", value |-> (* "Cu'be" *) <<"C","u","'","b","e">>]>>],
      [text |-> (* "[0]" *) <<"[","0","]">>, is |-> "bracket",
       seg |-> <<[type |-> "index", index |-> 0]>>],
      [text |-> (* "[-12]" *) <<"[","-","1","2","]">>, is |-> "bracket",
       seg |-> <<[type |-> "index", index |-> 0 - 12]>>],
      [text |-> (* "." *) <<".">>, is |-> "dot", seg |-> <<>>],
      [text |-> (* "[" *) <<"[">>, is |-> "bad", seg |-> <<>>],
      [text |-> (* "['Cube" *) <<"[","'","C","u","b","e">>, is |-> "bad", seg |-> <<>>],
      [text |-> (* "[1.5]" *) <<"[","1",".","5","]">>, is |-> "bad", seg |-> <<>>],
      [text |-> (* " " *) <<" ">>, is |-> "bad", seg |-> <<>>]>>

\* the path string made of the pieces numbered in ps
RECURSIVE PathText(_)
PathText(ps) ==
    IF ps = <<>> THEN <<>>
    ELSE Eval(SubSeq(ps, 1, Len(ps) - 1), PathText) \o PathPieces[ps[Len(ps)]].text

\* the segments the pieces numbered in ps stand for, in order
RECURSIVE PathSegments(_)
PathSegments(ps) ==
    IF ps = <<>> THEN <<>>
    ELSE Eval(SubSeq(ps, 1, Len(ps) - 1), PathSegments) \o PathPieces[ps[Len(ps)]].seg

\* the first piece of ps that is outside the grammar, or 0
FirstBad(ps) ==
    IF \E i \in 1..Len(ps) : PathPieces[ps[i]].is = "bad"
    THEN CHOOSE i \in 1..Len(ps) :
           /\ PathPieces[ps[i]].is = "bad"
           /\ \A j \in 1..(i - 1) : PathPieces[ps[j]].is # "bad"
    ELSE 0

\* a caller extends the path by one piece; a bare name is not written right
\* after another name (the two would read as one name)
append_piece ==
    /\ ret = <<>>
    /\ Len(arg) < MaxPieces
    /\ \E p \in 1..Len(PathPieces) :
         /\ IF PathPieces[p].is = "attr" /\ arg # <<>>
            THEN PathPieces[arg[Len(arg)]].is \notin {"attr", "dotted"}
            ELSE TRUE
         /\ arg' = Append(arg, p)
    /\ UNCHANGED <<bridgeVars, throttleVars, ret, registryVars>>

\* tokenize_path(path) returns or raises
call_tokenize_path ==
    /\ ret = <<>>
    /\ \E done \in {tokenize_path(PathText(arg))} : ret' = <<done>>
    /\ UNCHANGED <<bridgeVars, throttleVars, arg, registryVars>>

NextPath ==
    \/ append_piece
    \/ call_tokenize_path

SpecPath == Init /\ [][NextPath]_vars

\* C11: tokenize_path maps a path to the ordered list of the segments its
\* pieces stand for (a name to an attribute, ['s'] or ["s"] to a key, [N]
\* with an optional minus sign to an index); a path holding text outside the
\* three productions raises an error that names the position (counted from
\* 0) where that text begins, and returns no segments.
C11_Tokenize ==
    ret # <<>> =>
        LET r == ret[1]
            bad == FirstBad(arg)
        IN  IF bad = 0
            THEN r.ok /\ r.val = PathSegments(arg)
            ELSE /\ ~r.ok
                 /\ "val" \notin DOMAIN r
                 /\ r.exc = "ValueError"
                 /\ r.err = (* "Invalid path syntax at position " *) <<"I","n","v","a","l","i","d"," ","p","a","t","h"," ","s","y","n","t","a","x"," ","a","t"," ","p","o","s","i","t","i","o","n"," ">>
                            \o IntText(Len(PathText(SubSeq(arg, 1, bad - 1))))
                            \o (* ": " *) <<":"," ">>
                            \o PathText(SubSeq(arg, bad, Len(arg)))

\* the path of the example has been tokenized into its five segments
C11_Witness ==
    /\ ret # <<>>
    /\ PathText(arg) = (* "objects['Cube'].modifiers[0].name" *) <<"o","b","j","e","c","t","s","[","'","C","u","b","e","'","]",".","m","o","d","i","f","i","e","r","s","[","0","]",".","n","a","m","e">>
    /\ ret[1].ok
    /\ ret[1].val = <<[type |-> "attr", value |-> (* "objects" *) <<"o","b","j","e","c","t","s">>],
                      [type |-> "key", value |-> (* "Cube" *) <<"C","u","b","e">>],
                      [type |-> "attr", value |-> (* "modifiers" *) <<"m","o","d","i","f","i","e","r","s">>],
                      [type |-> "index", index |-> 0],
                      [type |-> "attr", value |-> (* "name" *) <<"n","a","m","e">>]>>

\* C12: when two distinct kinds are pending and a step flushes both (the
\* timer with both eligible, or flush_immediate), exactly two messages are put
\* on the outbound queue, one per kind in the order of the buckets, and each
\* is built from the submissions of its own kind only: it is the coalesced
\* message of its kind and carries no reason of the other kind.
C12_OnePerKind ==
    [][(Len(_pending_events) = 2 /\ _pending_events' = <<>>) =>
         LET new == SubSeq(_message_queue', Len(_message_queue) + 1,
                           Len(_message_queue'))
             kind(i) == _pending_events[i].key
         IN  /\ kind(1) # kind(2)
             /\ Len(new) = 2
             /\ \A i \in 1..2 :
                  LET own == submitted[kind(i)]
                      other == submitted[kind(3 - i)]
                      p == FlushPayload(new[i])
                  IN  /\ Coalesces(new[i], own)
                      /\ ~Coalesces(new[i], other)
                      /\ p.reasons \cap {other[j].reason : j \in 1..Len(other)}
                           = {}]_vars

\* both kinds were flushed: a frame_change message and a depsgraph_update
\* message are next to each other on the outbound queue and no bucket is left
C12_Witness ==
    /\ _pending_events = <<>>
    /\ \E i \in 1..(Len(_message_queue) - 1) :
         LET p == FlushPayload(_message_queue[i])
             q == FlushPayload(_message_queue[i + 1])
         IN  /\ "reasons" \in DOMAIN p /\ "reasons" \in DOMAIN q
             /\ "frame" \in DOMAIN p \/ "frame" \in DOMAIN q
             /\ "depsgraph_changed" \in p.reasons \cup q.reasons
             /\ p.reasons \cap q.reasons = {}

(***************************************************************************)
(* SpecLive: the bridge under the scheduling the code sets up.  The        *)
(* transport thread runs on its own; on the main thread the host calls     *)
(* back the timers that were registered with bpy.app.timers, and           *)
(* events/registry.py registers process_queue alone.                       *)
(***************************************************************************)
\* the callbacks _register_timers hands to bpy.app.timers.register
RegisteredTimers == {"process_queue"}

\* the steps that are taken whenever they stay possible: those of a running
\* thread, and the callbacks of the registered timers
Fairness ==
    /\ \A t \in Threads :
         /\ WF_vars(ws_thread_loop(t))
         /\ WF_vars(ws_thread_attempt(t))
         /\ WF_vars(run_forever_connect(t))
         /\ WF_vars(on_open(t))
         /\ WF_vars(ws_thread_backoff_test(t))
         /\ WF_vars(ws_thread_wait_flag(t))
         /\ WF_vars(ws_thread_wait_timeout(t))
    /\ "process_queue" \in RegisteredTimers => WF_vars(process_queue)
    /\ "process_pending_requests" \in RegisteredTimers =>
         /\ WF_vars(process_pending_requests_begin)
         /\ WF_vars(process_pending_requests_step)
         /\ WF_vars(process_pending_requests_end)

SpecLive == Init /\ [][Next]_vars /\ Fairness

\* request id waits in the inbound queue
Queued(id) ==
    \E i \in 1..Len(_pending_requests) : _pending_requests[i].id = id

\* request id was taken off the inbound queue on the main thread and a
\* response for it was put on the outbound queue
Answered(id) ==
    /\ handled # None
    /\ handled.request.id = id
    /\ handled.response # <<>> \/ handled.put # <<>>

\* C13: every request the transport thread has queued while the bridge is
\* running is eventually taken off the inbound queue on the main thread and
\* answered (unless the bridge is stopped first).
C13_RequestAnswered ==
    \A id \in 1..MaxRequests : Queued(id) ~> (Answered(id) \/ ~_should_run)

\* the legacy-framed 'connected' event that lists the supported versions
IsLegacyConnected(m) ==
    /\ ~IsEnvelope(m)
    /\ Get(m, "type", "") = "event"
    /\ Get(m, "event", "") = "connected"
    /\ Get(m, "supported_protocol_versions", <<>>) = SUPPORTED_PROTOCOL_VERSIONS

C15_Fifo ==
    [][LET sent == SubSeq(wire', Len(wire) + 1, Len(wire'))
           q == _message_queue
       IN  /\ Len(wire') >= Len(wire)
           /\ SubSeq(wire', 1, Len(wire)) = wire
           /\ IF sent = <<>>
              THEN \/ /\ Len(_message_queue') >= Len(q)
                      /\ SubSeq(_message_queue', 1, Len(q)) = q
                   \/ \E k \in 1..Len(q) :
                        _message_queue' = SubSeq(q, k + 1, Len(q))
              ELSE /\ Len(sent) <= Len(q)
                   /\ \A i \in 1..Len(sent) : sent[i].msg = q[i]
                   /\ \E k \in Len(sent)..Len(q) :
                        _message_queue' = SubSeq(q, k + 1, Len(q))]_vars

\* messages of both producers were transmitted in their order: the
\* 'connected' event of the transport thread, then the acknowledgment and the
\* confirmation the main thread enqueued
C15_Witness ==
    /\ Len(wire) >= 3
    /\ IsLegacyConnected(wire[1].msg)
    /\ IsUpgradeAck(wire[2].msg)
    /\ IsConfirmation(wire[3].msg)

(***************************************************************************)
(* SpecLifecycle: the transport threads under register() and unregister()  *)
(* called in any order on the main thread.                                 *)
(***************************************************************************)
NextLifecycle ==
    \/ \E t \in Threads : ws_thread_loop(t)
    \/ \E t \in Threads : ws_thread_attempt(t)
    \/ \E t \in Threads : run_forever_connect(t)
    \/ \E t \in Threads : on_open(t)
    \/ \E t \in Threads : run_forever_close(t)
    \/ \E t \in Threads : ws_thread_backoff(t)
    \/ register
    \/ unregister_connection
    \/ unregister_join
    \/ unregister_throttle

SpecLifecycle == Init /\ [][NextLifecycle]_vars

\* C16: a transport thread ends only at the test of its loop, with the run
\* flag clear; from inside a connection attempt (reading the preferences,
\* building the socket, run_forever) it never ends, so an exception raised
\* there was caught and the thread goes on to the next test of the loop.
C16_ThreadSurvives ==
    [][\A t \in Threads :
         (tpc[t] # "exited" /\ tpc'[t] = "exited") =>
             (tpc[t] = "loop" /\ ~_should_run)]_vars

\* an attempt has raised before any WebSocketApp existed, and the thread is
\* alive at the end of its try statement with the run flag set
C16_Witness ==
    /\ _should_run
    /\ conn = 0
    /\ tpc[1] = "closed"

\* connection.unregister() has returned and register() was not called since
Stopped == mainpc \in {"unregistering", "stopped"} /\ ~_should_run

\* C17: once stop() has returned, and while no start() follows, no thread
\* opens a connection any more.
C17_NoConnectionAfterStop ==
    [][Stopped => sock' \subseteq sock]_vars

\* C18: at most one transport thread is alive in ws_thread and at most one
\* socket is connected, whatever the order of the start() and stop() calls.
C18_OneThreadOneSocket ==
    /\ Cardinality({t \in Threads : is_alive(t)}) <= 1
    /\ Cardinality(sock) <= 1

(***************************************************************************)
(* The two framings against each other: a legacy message is wrapped by     *)
(* wrap_legacy_message and the envelope is handed to send_to_blendmate in  *)
(* a legacy session, which queues what it unwraps.  A legacy message is    *)
(* chosen by its type and three fields, each absent or one of two values.  *)
(***************************************************************************)
LegacyTypes == <<"event", "response", "heartbeat", "context">>

\* the field key with the i-th of the values, or no field when i = 0
Field(key, i, values) == IF i = 0 THEN <<>> ELSE key :> values[i]

\* the legacy message that the choice c = <<type, i, j, k>> stands for
LegacyMessage(c) ==
    LET msg_type == LegacyTypes[c[1]]
    IN  [type |-> msg_type]
        @@ CASE msg_type = "event" ->
                  Field("event", c[2], <<"frame_change", "custom">>)
                  @@ Field("frame", c[3], <<1, 2>>)
                  @@ Field("filepath", c[4], <<"(unsaved)", "a.blend">>)
             [] msg_type = "response" ->
                  Field("id", c[2], <<"r1", "r2">>)
                  @@ Field("data", c[3], <<None, [frame |-> 1]>>)
                  @@ Field("error", c[4], <<"boom", "bad">>)
             [] msg_type = "heartbeat" ->
                  Field("active_object", c[2], <<"Cube", "Lamp">>)
                  @@ Field("mode", c[3], <<"OBJECT", "EDIT">>)
                  @@ Field("filepath", c[4], <<"(unsaved)", "a.blend">>)
             [] msg_type = "context" ->
                  Field("node_id", c[2], <<"n1", "n2">>)
                  @@ Field("area", c[3], <<"gn", "shader">>)
                  @@ Field("index", c[4], <<1, 2>>)

choose_legacy ==
    /\ arg = <<>>
    /\ \E msg_type \in DOMAIN LegacyTypes : \E i, j, k \in 0..2 :
         arg' = <<msg_type, i, j, k>>
    /\ UNCHANGED <<bridgeVars, throttleVars, ret, registryVars>>

\* wrap_legacy_message(m), then send_to_blendmate(envelope) with the session
\* at version 0: ret is the message that was queued
call_wrap_unwrap ==
    /\ arg # <<>>
    /\ ret = <<>>
    /\ ret' = send_to_blendmate(<<>>, 0, wrap_legacy_message(LegacyMessage(arg)))
    /\ UNCHANGED <<bridgeVars, throttleVars, arg, registryVars>>

NextWrap == choose_legacy \/ call_wrap_unwrap

SpecWrap == Init /\ [][NextWrap]_vars

\* C19: wrapping a legacy message of any of the four legacy types and
\* unwrapping the envelope on the legacy path gives the original message back
C19_RoundTrip == ret # <<>> => ret[1] = LegacyMessage(arg)

(***************************************************************************)
(* The configuration surface of the throttle window.  The preferences      *)
(* store holds throttle_interval, a float property in milliseconds that    *)
(* the host clamps into [min, max] on assignment; throttle.py has no       *)
(* setter and reads no preference: the window by which                     *)
(* _flush_pending_events decides eligibility is the module constant.       *)
(***************************************************************************)
MaxMs == 1100

throttle_interval_default == 100
throttle_interval_min == 50
throttle_interval_max == 200

Clamp(x, lo, hi) == IF x < lo THEN lo ELSE IF x > hi THEN hi ELSE x

\* prefs.throttle_interval = ms
set_throttle_interval_preference ==
    /\ arg = <<>>
    /\ \E ms \in 0..MaxMs : arg' = <<ms>>
    /\ UNCHANGED <<bridgeVars, throttleVars, ret, registryVars>>

\* the state of the configuration after the assignment: the stored
\* preference and the window that flush eligibility is decided by
read_throttle_interval ==
    /\ arg # <<>>
    /\ ret = <<>>
    /\ ret' = <<[throttle_interval |->
                   Clamp(arg[1], throttle_interval_min, throttle_interval_max),
                 window |-> _throttle_interval * TickMs]>>
    /\ UNCHANGED <<bridgeVars, throttleVars, arg, registryVars>>

NextConfig == set_throttle_interval_preference \/ read_throttle_interval

SpecConfig == Init /\ [][NextConfig]_vars

\* C20: the throttle window is the configured value clamped into
\* [10 ms, 1000 ms] (100 ms when nothing was configured), and that window is
\* the one flush eligibility uses
C20_WindowClamped ==
    /\ ret = <<>> /\ arg = <<>> => _throttle_interval * TickMs = 100
    /\ ret # <<>> => ret[1].window = Clamp(arg[1], 10, 1000)

(***************************************************************************)
(* SpecRegistry: register_all and unregister_all called in any order; arg  *)
(* is the sequence of the calls made so far.                               *)
(***************************************************************************)
MaxCalls == 6

call_register_all ==
    /\ Len(arg) < MaxCalls
    /\ registry' = register_all(registry)
    /\ arg' = Append(arg, "register_all")
    /\ UNCHANGED <<bridgeVars, throttleVars, ret>>

call_unregister_all ==
    /\ Len(arg) < MaxCalls
    /\ registry' = unregister_all(registry)
    /\ arg' = Append(arg, "unregister_all")
    /\ UNCHANGED <<bridgeVars, throttleVars, ret>>

NextRegistry == call_register_all \/ call_unregister_all

SpecRegistry == Init /\ [][NextRegistry]_vars

\* how often x occurs in the list
Count(list, x) == Cardinality({i \in DOMAIN list : list[i] = x})

\* C21: after register_all each of the four handlers is in its list exactly
\* once and the drain timer is registered; after unregister_all no handler
\* and no timer is registered and both tracking lists are empty
C21_Idempotent ==
    arg # <<>> =>
      IF arg[Len(arg)] = "register_all"
      THEN /\ \A i \in DOMAIN handlers_to_register :
                Count(registry.handlers[handlers_to_register[i][1]],
                      handlers_to_register[i][2]) = 1
           /\ "process_queue" \in registry.timers
           /\ Len(registry._registered_handlers) = Len(handlers_to_register)
           /\ Len(registry._registered_timers) = 1
      ELSE /\ \A l \in DOMAIN registry.handlers : registry.handlers[l] = <<>>
           /\ registry.timers = {}
           /\ registry._registered_handlers = <<>>
           /\ registry._registered_timers = <<>>

\* register_all twice, then unregister_all twice
C21_Witness ==
    /\ Len(arg) = 4
    /\ arg = <<"register_all", "register_all", "unregister_all", "unregister_all">>
    /\ registry = Registry0

\* C22: between two consecutive connection attempts of a thread the backoff
\* wait lasts its whole timeout: an attempt starts only as the thread's first
\* or after a wait that timed out
C22_BackoffElapsed ==
    [][\A t \in Threads :
         (tpc[t] = "loop" /\ tpc'[t] = "attempt") => waited[t] \in {"start", "full"}]_vars

\* C23: a drain attempts every message that was queued when it began, whether
\* or not one of the sends fails: a tick that takes a message off the
\* outbound queue leaves none of them in it
C23_BatchContinues ==
    [][Len(_message_queue') < Len(_message_queue) => _message_queue' = <<>>]_vars

\* C24: a bucket is eligible once the time since its first submission
\* reaches the throttle window: a run of the flush timer leaves no bucket
\* pending that was created a window or more ago, however recent its latest
\* submission
C24_EligibleByAge ==
    [][_flush_pending_events =>
         \A k \in DOMAIN submitted :
            now - submitted[k][1].created >= _throttle_interval
               => k \notin PendingKinds(_pending_events')]_vars

\* C25: the reply to a protocol.upgrade request goes out legacy-framed
\* whatever the session version: the first message the handling of such a
\* request adds to the outbound queue is no envelope
C25_UpgradeReplyLegacy ==
    [][(/\ mainpc = "requests"
        /\ _pending_requests # <<>>
        /\ _pending_requests' = Tail(_pending_requests)
        /\ Head(_pending_requests).action = (* "protocol.upgrade" *) <<"p","r","o","t","o","c","o","l",".","u","p","g","r","a","d","e">>)
       => LET added == SubSeq(_message_queue', Len(_message_queue) + 1,
                              Len(_message_queue'))
          IN  added # <<>> /\ ~IsEnvelope(added[1])]_vars

\* C26: the session version changes only when a connection opens (to 0) and
\* when a protocol.upgrade naming a supported version is handled (to that
\* version); a version of 1 or more changes only when a connection opens
C26_VersionFrame ==
    [][_session_protocol_version' # _session_protocol_version =>
         LET opened == /\ \E t \in Threads :
                             tpc[t] = "connected" /\ tpc'[t] = "open"
                       /\ _session_protocol_version' = 0
             upgraded ==
                 /\ mainpc = "requests"
                 /\ _pending_requests # <<>>
                 /\ _pending_requests' = Tail(_pending_requests)
                 /\ Head(_pending_requests).action = (* "protocol.upgrade" *) <<"p","r","o","t","o","c","o","l",".","u","p","g","r","a","d","e">>
                 /\ "version" \in DOMAIN Head(_pending_requests).params
                 /\ InList(Head(_pending_requests).params.version,
                           SUPPORTED_PROTOCOL_VERSIONS)
                 /\ _session_protocol_version' =
                      Head(_pending_requests).params.version
         IN  /\ opened \/ upgraded
             /\ _session_protocol_version >= 1 => opened]_vars

\* the session was upgraded on one connection and is legacy again on the
\* next, and a failed upgrade has been handled on the upgraded session
C26_Witness ==
    /\ handled # None
    /\ handled.request.action = (* "protocol.upgrade" *) <<"p","r","o","t","o","c","o","l",".","u","p","g","r","a","d","e">>
    /\ "version" \in DOMAIN handled.request.params
    /\ handled.request.params.version = 2
    /\ handled.version = 1
    /\ handled.after = 1
    /\ conn = 2
    /\ _session_protocol_version = 0

\* the handled request is a property.get, or a property.set with its path
\* and value, whose target does not resolve
ResolutionFailed ==
    /\ handled # None
    /\ \/ handled.request.action = (* "property.get" *) <<"p","r","o","p","e","r","t","y",".","g","e","t">>
       \/ /\ handled.request.action = (* "property.set" *) <<"p","r","o","p","e","r","t","y",".","s","e","t">>
          /\ "value" \in DOMAIN handled.request.params
          /\ Get(handled.request.params, "path", <<>>) # <<>>
    /\ ~resolve_path(Host0.data, handled.request.target).ok

\* C27: a property command whose target does not resolve is answered with
\* an error whose code is INVALID_PARAMS or NOT_FOUND
C27_ResolutionErrorCode ==
    ResolutionFailed
    => /\ handled.response # <<>>
       /\ IsError(Reply)
       /\ ErrorCodeOf(Reply) \in {"INVALID_PARAMS", "NOT_FOUND"}

\* the text of an error reply
ErrorTextOf(r) == IF IsEnvelope(r) THEN r.body.error.message ELSE r.error

InitInbound ==
    /\ registry = Registry0
    /\ _should_run = TRUE
    /\ _thread = 1
    /\ tpc = [t \in Threads |-> IF t = 1 THEN "open" ELSE "unborn"]
    /\ waited = [t \in Threads |-> "start"]
    /\ ws_app = [t \in Threads |-> IF t = 1 THEN 1 ELSE 0]
    /\ _ws = 1
    /\ sock = {1}
    /\ _session_protocol_version \in {0, 1}
    /\ _message_queue = <<>>
    /\ _pending_requests = <<>>
    /\ mainpc = "idle"
    /\ conn = 1
    /\ wire = <<>>
    /\ nreq = 0
    /\ handled = None
    /\ host = Host0
    /\ _pending_events = <<>>
    /\ _dirty_reasons = <<>>
    /\ _coalesced_data = <<>>
    /\ _event_count = <<>>
    /\ _new_type_map = <<>>
    /\ flush_timer = <<>>
    /\ now = 0
    /\ submitted = <<>>
    /\ budget = 0
    /\ frame_current = 1
    /\ arg = <<>>
    /\ ret = <<>>

call_on_ws_message(t) ==
    /\ \E i \in 1..Len(Messages(nreq + 1)) :
         /\ on_ws_message_of(t, Messages(nreq + 1)[i])
         /\ arg' = Append(arg, [conn |-> ws_app[t]] @@ Messages(nreq + 1)[i])
    /\ UNCHANGED ret

NextInbound ==
    \/ \E t \in Threads : call_on_ws_message(t)
    \/ \E t \in Threads : run_forever_close(t)
    \/ process_pending_requests_begin
    \/ process_pending_requests_step
    \/ process_pending_requests_end
    \/ process_queue

SpecInbound == InitInbound /\ [][NextInbound]_vars

\* the request ids that the responses among the messages msgs answer
ResponseIds(msgs) ==
    {IF IsEnvelope(msgs[i]) THEN msgs[i].reply_to ELSE msgs[i].id :
       i \in {j \in DOMAIN msgs : msgs[j].type = "response"}}

\* C29: when a text that is not valid JSON arrives, both queues, the
\* session protocol version and what was transmitted stay as they were, the
\* transport thread stays in its receive loop on the same open socket, and
\* every response queued or transmitted answers a request that did arrive
C29_InvalidJsonDropped ==
    [][/\ (Len(arg') = Len(arg) + 1 /\ ~arg'[Len(arg')].json)
          => /\ _pending_requests' = _pending_requests
             /\ _message_queue' = _message_queue
             /\ _session_protocol_version' = _session_protocol_version
             /\ wire' = wire
             /\ handled' = handled
             /\ tpc' = tpc
             /\ ws_app' = ws_app
             /\ sock' = sock
       /\ ResponseIds(_message_queue') \cup ResponseIds([i \in DOMAIN wire' |-> wire'[i].msg])
            \subseteq {arg'[j].value.id : j \in {k \in DOMAIN arg' : arg'[k].json}}]_vars

\* a text that is not JSON arrived and left nothing behind, and the request
\* that arrived after it on the same connection has been queued
C29_Witness ==
    /\ Len(arg) = 2
    /\ ~arg[1].json
    /\ arg[2].json
    /\ arg[2].value.type = "request"
    /\ _pending_requests = <<arg[2].value>>
    /\ _message_queue = <<>>
    /\ wire = <<>>
    /\ tpc[1] = "open"

\* the modelled commands that change the host
MutatingCommands ==
    {(* "property.set" *) <<"p","r","o","p","e","r","t","y",".","s","e","t">>, (* "property.set_batch" *) <<"p","r","o","p","e","r","t","y",".","s","e","t","_","b","a","t","c","h">>, (* "operator.call" *) <<"o","p","e","r","a","t","o","r",".","c","a","l","l">>}

\* C30: when a mutating command is handled, the command run with a working
\* undo_push leaves a checkpoint whenever it changes the host, and whether
\* or not undo_push worked, the host's data and operators and the success
\* of the reply are those of the run with a working undo_push
C30_UndoNonFatal ==
    [][(/\ mainpc = "requests"
        /\ _pending_requests # <<>>
        /\ _pending_requests' = Tail(_pending_requests)
        /\ Head(_pending_requests).action \in MutatingCommands)
       => \E op_ok \in BOOLEAN :
            LET request == Head(_pending_requests)
                pushed == handle_command(host, request.action, request.target,
                                         request.params,
                                         [undo_ok |-> TRUE, op_ok |-> op_ok,
                                          data_ok |-> TRUE])
            IN  /\ (pushed.host.data # host.data \/ pushed.host.ops # host.ops)
                     => pushed.host.undo = host.undo + 1
                /\ host'.data = pushed.host.data
                /\ host'.ops = pushed.host.ops
                /\ IsError(handled'.response[1]) = ~pushed.result.success]_vars

\* v is None (a value of one kind cannot be compared with one of another)
IsNone(v) == ToString(v) = ToString(None)

\* the response r, in either framing, carries a data payload / an error
HasData(r) ==
    IF IsEnvelope(r)
    THEN "data" \in DOMAIN r.body /\ ~IsNone(r.body.data)
    ELSE "data" \in DOMAIN r /\ ~IsNone(r.data)

HasError(r) ==
    IF IsEnvelope(r) THEN "error" \in DOMAIN r.body ELSE "error" \in DOMAIN r

\* r is a success response with no error, or an error response with an
\* error and no data payload
DataXorError(r) ==
    IF (IF IsEnvelope(r) THEN r.body.ok ELSE Get(r, "ok", FALSE))
    THEN ~HasError(r)
    ELSE HasError(r) /\ ~HasData(r)

\* the responses among the messages msgs
Responses(msgs) == SelectSeq(msgs, LAMBDA m : m.type = "response")

BucketAge(k) == now - submitted[k][1].created

Eligible(k) == BucketAge(k) >= _throttle_interval

\* the least element of a non-empty set of integers
Least(S) == CHOOSE w \in S : \A x \in S : w <= x

\* the bucket of kind k in the throttle state T
Bucket(T, k) ==
    [entry |-> T._pending_events[PendingIndex(T._pending_events, k)],
     coalesced |-> T._coalesced_data[k],
     count |-> T._event_count[k],
     reasons |-> Get(T._dirty_reasons, k, {}),
     new_type |-> Get(T._new_type_map, k, "")]

\* C32: the timer callback stops the timer exactly when no bucket is left;
\* otherwise its delay is the least remaining wait of the buckets that are
\* not yet eligible, at least 10 ms; it removes only eligible buckets and
\* leaves the others as they were
C32_TimerReport ==
    [][_flush_pending_events
       => LET before == PendingKinds(_pending_events)
              after == PendingKinds(_pending_events')
              waiting == {k \in after : ~Eligible(k)}
          IN  /\ (flush_timer' = <<>>) <=> (after = {})
              /\ \A k \in before \ after : Eligible(k)
              /\ \A k \in before :
                   ~Eligible(k)
                   => /\ k \in after
                      /\ Bucket(ThrottleState', k) = Bucket(ThrottleState, k)
              /\ after # {}
                   => /\ waiting # {}
                      /\ flush_timer'[1] - now =
                           rearm_delay(Least({_throttle_interval - BucketAge(k) :
                                                k \in waiting}))]_vars

\* a time at which every bucket of the throttle state T has waited a window
AllEligibleAt(T) ==
    LET stamps == {T._pending_events[i].timestamp : i \in DOMAIN T._pending_events}
    IN  (CHOOSE w \in stamps : \A x \in stamps : x <= w) + _throttle_interval

\* C33: for the pending buckets and the session version of any state,
\* flush_immediate queues the messages the timer callback would queue once
\* every bucket is eligible, one per bucket behind what was queued, and
\* both leave no bucket; after the flush_immediate of unregister no bucket
\* is pending
C33_ForcedFlushAgrees ==
    /\ _pending_events # <<>>
         => LET forced == flush_immediate(ThrottleState, _session_protocol_version,
                                          _message_queue)
                timed == flush_pending_events(ThrottleState,
                                              _session_protocol_version,
                                              _message_queue,
                                              AllEligibleAt(ThrottleState))
            IN  /\ forced.queue = timed.queue
                /\ Len(forced.queue) = Len(_message_queue) + Len(_pending_events)
                /\ forced.T = ThrottleCleared
                /\ timed.T = ThrottleCleared
                /\ timed.delay = <<>>
    /\ mainpc = "stopped" => _pending_events = <<>>

\* unregister ran before any timer callback could: its flush_immediate put
\* the messages of two buckets on the outbound queue and left no bucket
C33_Witness ==
    /\ now = 0
    /\ mainpc = "stopped"
    /\ _pending_events = <<>>
    /\ \E i \in 1..(Len(_message_queue) - 1) :
         LET p == FlushPayload(_message_queue[i])
             q == FlushPayload(_message_queue[i + 1])
         IN  /\ "reasons" \in DOMAIN p /\ "reasons" \in DOMAIN q
             /\ "frame" \in DOMAIN p \/ "frame" \in DOMAIN q
             /\ "batch_size" \in DOMAIN p \/ "batch_size" \in DOMAIN q

(***************************************************************************)
(* The tick callbacks on an open connection, before and after unregister:  *)
(* ret keeps what the last callback returned, with the run flag it found.  *)
(***************************************************************************)
Returned(callback, result) ==
    IF result.returned
    THEN <<[callback |-> callback, flag |-> _should_run, value |-> result.value,
            queued |-> Len(_message_queue) + Len(_pending_requests)]>>
    ELSE <<>>

call_process_queue ==
    \E result \in TickResults :
        /\ process_queue_returning(result)
        /\ ret' = Returned("process_queue", result)
        /\ UNCHANGED arg

call_process_pending_requests_begin ==
    \E result \in TickResults :
        /\ process_pending_requests_begin_returning(result)
        /\ ret' = Returned("process_pending_requests", result)
        /\ UNCHANGED arg

call_process_pending_requests_end ==
    \E result \in TickResults :
        /\ process_pending_requests_end_returning(result)
        /\ ret' = Returned("process_pending_requests", result)
        /\ UNCHANGED arg

NextTick ==
    \/ \E t \in Threads : on_ws_message(t)
    \/ \E t \in Threads : run_forever_close(t)
    \/ call_process_queue
    \/ call_process_pending_requests_begin
    \/ process_pending_requests_step
    \/ call_process_pending_requests_end
    \/ unregister_connection
    \/ unregister_join
    \/ unregister_throttle

SpecTick == InitInbound /\ [][NextTick]_vars

\* C34: a tick callback that returns, returns None exactly when the run
\* flag is clear, and the 0.1 s delay otherwise; with the flag clear it
\* leaves both queues and what was transmitted as they were, and no request
\* is handled while the flag is clear
C34_TickReturn ==
    [][/\ \A result \in TickResults :
            (\/ process_queue_returning(result)
             \/ process_pending_requests_begin_returning(result)
             \/ process_pending_requests_end_returning(result))
            => /\ result.returned
                  => /\ (result.value = <<>>) <=> ~_should_run
                     /\ result.value # <<>> => result.value = <<tick_interval>>
               /\ ~_should_run
                  => /\ result.returned
                     /\ _message_queue' = _message_queue
                     /\ _pending_requests' = _pending_requests
                     /\ wire' = wire
                     /\ handled' = handled
       /\ mainpc = "requests" => _should_run]_vars

\* after unregister, with messages and requests still queued, a callback
\* found the run flag clear and returned None
C34_Witness ==
    /\ ret # <<>>
    /\ ~ret[1].flag
    /\ ret[1].value = <<>>
    /\ ret[1].callback = "process_queue"
    /\ _message_queue # <<>>
    /\ _pending_requests # <<>>
    /\ ret[1].queued = Len(_message_queue) + Len(_pending_requests)

\* what a step transmitted
Transmitted == SubSeq(wire', Len(wire) + 1, Len(wire'))

\* C35: every message is transmitted in the framing of the session version
\* in force when it is transmitted: legacy framing while the version is 0,
\* an envelope, or the upgrade acknowledgment, while it is 1 or more
C35_FramedAsInForce ==
    [][\A i \in DOMAIN Transmitted :
          IF _session_protocol_version = 0
          THEN ~IsEnvelope(Transmitted[i].msg)
          ELSE IsEnvelope(Transmitted[i].msg) \/ IsUpgradeAck(Transmitted[i].msg)]_vars

(***************************************************************************)
(* The inbound path across reconnects: one transport thread whose socket   *)
(* drops and reopens while requests arrive and the ticks run.              *)
(***************************************************************************)
NextReconnect ==
    \/ \E t \in Threads : call_on_ws_message(t)
    \/ \E t \in Threads : run_forever_close(t)
    \/ \E t \in Threads : ws_thread_backoff_test(t)
    \/ \E t \in Threads : ws_thread_wait_flag(t)
    \/ \E t \in Threads : ws_thread_loop(t)
    \/ \E t \in Threads : ws_thread_attempt(t)
    \/ \E t \in Threads : run_forever_connect(t)
    \/ \E t \in Threads : on_open(t)
    \/ process_pending_requests_begin
    \/ process_pending_requests_step
    \/ process_pending_requests_end
    \/ process_queue

SpecReconnect == InitInbound /\ [][NextReconnect]_vars

\* the connection on which the request numbered id arrived
ArrivedOn(id) ==
    arg[CHOOSE j \in DOMAIN arg : arg[j].json /\ arg[j].value.id = id].conn

\* C36: a request is handled only while no connection other than the one it
\* arrived on is open, and every response is transmitted on the connection
\* its request arrived on
C36_OwnConnection ==
    [][/\ (/\ mainpc = "requests"
           /\ _pending_requests # <<>>
           /\ _pending_requests' = Tail(_pending_requests))
          => \A t \in Threads :
                 tpc[t] = "open"
                 => ws_app[t] = ArrivedOn(Head(_pending_requests).id)
       /\ \A i \in DOMAIN Transmitted :
            LET m == Transmitted[i].msg
            IN  m.type = "response"
                => Transmitted[i].conn
                     = ArrivedOn(IF IsEnvelope(m) THEN m.reply_to ELSE m.id)]_vars

\* C37: the first message transmitted on a connection is its legacy
\* 'connected' event: a drain that transmits the first message of a
\* connection while a 'connected' event waits in the queue transmits that
\* event first, nothing enqueued before it goes ahead of it
C37_ConnectedFirst ==
    [][(/\ Transmitted # <<>>
        /\ \A j \in DOMAIN wire : wire[j].conn # Transmitted[1].conn
        /\ \E k \in DOMAIN _message_queue : IsLegacyConnected(_message_queue[k]))
       => IsLegacyConnected(Transmitted[1].msg)]_vars
\* C38: the outbound drain loses no message: the messages process_queue
\* removes from the queue are exactly the messages it transmits, what it does
\* not transmit stays on the queue for a later tick
C38_DrainLosesNothing ==
    [][process_queue
       => _message_queue = [i \in DOMAIN Transmitted |-> Transmitted[i].msg]
                           \o _message_queue']_vars
\* the responses that the handling of the last request produced: those
\* handle_request put on the queue itself and the one it returned
Answers ==
    IF IsNone(handled) THEN <<>>
    ELSE Responses(handled.put) \o Responses(handled.response)

\* C39: the handling of a request produces at most one response that carries
\* its id, and a protocol.upgrade that was answered with an error has not
\* upgraded the session
C39_OneResponse ==
    /\ Len(Answers) <= 1
    /\ \A i \in DOMAIN Answers :
         (HasError(Answers[i]) /\ handled.request.action = (* "protocol.upgrade" *) <<"p","r","o","t","o","c","o","l",".","u","p","g","r","a","d","e">>)
         => handled.after = handled.version
\* C40: the per-kind maps of the throttle agree (the kinds with a pending
\* payload are the kinds with accumulated sets and the kinds with an
\* occurrence count, every count is at least 1, reasons and type mappings
\* exist only for pending kinds, no kind is pending twice), and while a
\* bucket is pending the flush timer is armed
C40_MapsAgree ==
    /\ Cardinality(PendingKinds(_pending_events)) = Len(_pending_events)
    /\ DOMAIN _coalesced_data = PendingKinds(_pending_events)
    /\ DOMAIN _event_count = PendingKinds(_pending_events)
    /\ \A k \in PendingKinds(_pending_events) : _event_count[k] >= 1
    /\ DOMAIN _dirty_reasons \subseteq PendingKinds(_pending_events)
    /\ DOMAIN _new_type_map \subseteq PendingKinds(_pending_events)
    /\ _pending_events # <<>> => flush_timer # <<>>

\* the timer callback has flushed one kind and left the other pending with
\* its reasons and its type mapping, and is armed again
C40_Witness ==
    /\ Len(_pending_events) = 1
    /\ DOMAIN _dirty_reasons = PendingKinds(_pending_events)
    /\ DOMAIN _new_type_map = PendingKinds(_pending_events)
    /\ flush_timer # <<>>
    /\ flush_timer[1] > now
    /\ \E i \in 1..Len(_message_queue) :
         "reasons" \in DOMAIN FlushPayload(_message_queue[i])
=============================================================================
